---------------------------- MODULE Spec2Model ----------------------------
(***************************************************************************)
(* Verification model of killerbunny, an RFC 9535 JSONPath engine.         *)
(*                                                                         *)
(* The model covers                                                        *)
(*   - normalized paths (evaluator_types.py, parsing/helper.py),           *)
(*   - the evaluator's selectors and segments (evaluating/evaluator.py),   *)
(*   - the query facade (evaluating/well_formed_query.py),                 *)
(*   - the comparison operators (evaluating/compare_ops.py),               *)
(*   - bracketed selections in the parser (parsing/parser.py).             *)
(*                                                                         *)
(* JSON values live in a heap of containers so that object identity (the   *)
(* Python id() the code relies on) is part of the state.  A character is   *)
(* a one-element TLA+ string; "<BS>", "<HT>", "<LF>", "<FF>", "<CR>" and   *)
(* "<01>" stand for the control characters U+0008, U+0009, U+000A, U+000C, *)
(* U+000D and U+0001.  A Python str is a sequence of characters.           *)
(***************************************************************************)
EXTENDS Integers, Sequences, FiniteSets, TLC

VARIABLES
    heap,        \* the containers of the root value: address -> array / object
    root,        \* the root JSON value handed to eval
    query,       \* the compiled query: its sequence of segments
    pc,          \* position of WellFormedValidQuery.eval
    segIdx,      \* index of the next segment visit_JsonPathQueryNode evaluates
    nodelist,    \* input nodelist of the next segment / output of the last one
    warnings,    \* warnings logged so far, in order
    result,      \* what eval handed to its caller
    cmpLeft,     \* left operand of a comparison
    cmpRight,    \* right operand of a comparison
    cmpOut,      \* outcome of ComparisonOperatorType.eval for each operator
    tokens,      \* token list handed to the parser
    parseOut,    \* outcome of JPathParser.parse
    rootNode,    \* the RootNode of the compiled query: its json_value
    fnCall,      \* a function call of a filter: the function and its argument values
    fnOut,       \* outcome of visit_FunctionCallNode
    functions,   \* _FunctionRegistry.functions: the registered function names
    registry,    \* _FunctionRegistry._instance and the holder of _FunctionRegistry._lock
    threads,     \* the threads that use the registry, or the evaluations that share a query: position and locals of each
    lexer_text,  \* JPathLexer.text: the query string handed to the lexer
    lexOut       \* what JPathLexer.tokenize returned: the tokens and the error

vars == << heap, root, query, pc, segIdx, nodelist, warnings, result,
           cmpLeft, cmpRight, cmpOut, tokens, parseOut,
           rootNode, fnCall, fnOut, functions, registry, threads, lexer_text, lexOut >>

evalVars  == << heap, root, query, pc, segIdx, nodelist, warnings, result, rootNode >>
cmpVars   == << cmpLeft, cmpRight, cmpOut >>
parseVars == << tokens, parseOut, lexer_text, lexOut >>
callVars  == << fnCall, fnOut >>
regVars   == << functions, registry, threads >>

-----------------------------------------------------------------------------
(* Bounds of the model                                                     *)

\* number of containers in an enumerated root value
MaxCells == 3
\* number of elements / members of one enumerated container
MaxLen == 2
\* total number of elements / members over all containers of a root value
MaxSlots == 4
\* how far past the traversal cap the nested-chain documents go
ChainExtra == 2
\* containers of a pair of compared operands
CmpCells == 2
\* selectors in an enumerated bracketed selection
MaxSelectors == 3

-----------------------------------------------------------------------------
(* Characters and strings                                                  *)

BACKSLASH == "\\"
SINGLE_QUOTE == "'"

Digits == << "0", "1", "2", "3", "4", "5", "6", "7", "8", "9" >>

RECURSIVE IntToStr(_)
\* str(i) for a non-negative index, as an f-string renders it
IntToStr(i) ==
    IF i < 10 THEN << Digits[i + 1] >>
    ELSE IntToStr(i \div 10) \o << Digits[(i % 10) + 1] >>

\* _ESCAPE_MAP: replacement text of an escapable character
_ESCAPE_MAP(c) ==
    CASE c = "<BS>" -> << BACKSLASH, "b" >>
      [] c = "<HT>" -> << BACKSLASH, "t" >>
      [] c = "<LF>" -> << BACKSLASH, "n" >>
      [] c = "<FF>" -> << BACKSLASH, "f" >>
      [] c = "<CR>" -> << BACKSLASH, "r" >>
      [] c = SINGLE_QUOTE -> << BACKSLASH, SINGLE_QUOTE >>
      [] c = BACKSLASH -> << BACKSLASH, BACKSLASH >>
      [] OTHER -> << c >>

\* _NORMAL_ESCAPABLE_RE matches at position i of content: a backslash or one
\* of \b \f \n \r \t, or a single quote that is not preceded by a backslash,
\* not preceded by "[" and not followed by "]"
_NORMAL_ESCAPABLE_RE(content, i) ==
    \/ content[i] \in { BACKSLASH, "<BS>", "<FF>", "<LF>", "<CR>", "<HT>" }
    \/ /\ content[i] = SINGLE_QUOTE
       /\ (i = 1 \/ content[i - 1] # BACKSLASH)
       /\ (i = 1 \/ content[i - 1] # "[")
       /\ (i = Len(content) \/ content[i + 1] # "]")

\* escape_string_content: re.sub over the whole argument, every match
\* replaced by its _ESCAPE_MAP text
escape_string_content(content) ==
    LET RECURSIVE sub(_, _)
        sub(lo, hi) ==
            IF lo > hi THEN << >>
            ELSE IF lo = hi
            THEN (IF _NORMAL_ESCAPABLE_RE(content, lo)
                  THEN _ESCAPE_MAP(content[lo])
                  ELSE << content[lo] >>)
            ELSE LET mid == (lo + hi) \div 2
                 IN sub(lo, mid) \o sub(mid + 1, hi)
    IN sub(1, Len(content))

ControlChars == { "<BS>", "<HT>", "<LF>", "<FF>", "<CR>", "<01>" }
\* NORMAL_UNESCAPED: %x20-26 / %x28-5B / %x5D-D7FF / %xE000-10FFFF
NORMAL_UNESCAPED(c) == c \notin (ControlChars \cup { SINGLE_QUOTE, BACKSLASH })
HexDigits == { "0", "1", "2", "3", "4", "5", "6", "7", "8", "9",
               "a", "b", "c", "d", "e", "f" }
\* NORMALIZED_PATH after the "$", ( "[" normal-selector "]" )*, as the
\* automaton of the pattern: where the match stands between two characters
NP_States == { "segment", "open", "zero", "digits", "name", "escape",
               "u1", "u2", "u3", "u4low", "u4high", "close", "fail" }
\* the automaton's move on character c
NP_Step(s, c) ==
    CASE s = "segment" -> IF c = "[" THEN "open" ELSE "fail"
      [] s = "open" -> IF c = SINGLE_QUOTE THEN "name"
                       ELSE IF c = "0" THEN "zero"
                       ELSE IF c \in { "1", "2", "3", "4", "5", "6", "7", "8", "9" }
                       THEN "digits" ELSE "fail"
      \* NORMAL_INDEX_SELECTOR: "0" or a non-zero digit followed by digits
      [] s = "zero" -> IF c = "]" THEN "segment" ELSE "fail"
      [] s = "digits" -> IF c = "]" THEN "segment"
                         ELSE IF c \in HexDigits \ { "a", "b", "c", "d", "e", "f" }
                         THEN "digits" ELSE "fail"
      \* NORMAL_NAME_SELECTOR: NORMAL_UNESCAPED or ESC NORMAL_ESCAPABLE
      [] s = "name" -> IF c = SINGLE_QUOTE THEN "close"
                       ELSE IF c = BACKSLASH THEN "escape"
                       ELSE IF NORMAL_UNESCAPED(c) THEN "name" ELSE "fail"
      [] s = "escape" -> IF c \in { "b", "f", "n", "r", "t", SINGLE_QUOTE, BACKSLASH }
                         THEN "name"
                         ELSE IF c = "u" THEN "u1" ELSE "fail"
      \* NORMAL_HEXCHAR: 00 followed by 0[0-7], 0b, 0e, 0f or 1 HEXDIG
      [] s = "u1" -> IF c = "0" THEN "u2" ELSE "fail"
      [] s = "u2" -> IF c = "0" THEN "u3" ELSE "fail"
      [] s = "u3" -> IF c = "0" THEN "u4low" ELSE IF c = "1" THEN "u4high" ELSE "fail"
      [] s = "u4low" -> IF c \in { "0", "1", "2", "3", "4", "5", "6", "7", "b", "e", "f" }
                        THEN "name" ELSE "fail"
      [] s = "u4high" -> IF c \in HexDigits THEN "name" ELSE "fail"
      [] s = "close" -> IF c = "]" THEN "segment" ELSE "fail"
      [] OTHER -> "fail"

RECURSIVE NP_Run(_, _, _)
\* where the automaton stands after p[lo..hi], for every place it may start
NP_Run(p, lo, hi) ==
    IF lo > hi THEN [ s \in NP_States |-> s ]
    ELSE IF lo = hi THEN [ s \in NP_States |-> NP_Step(s, p[lo]) ]
    ELSE LET mid == (lo + hi) \div 2
             first == NP_Run(p, lo, mid)
             second == NP_Run(p, mid + 1, hi)
         IN [ s \in NP_States |-> second[first[s]] ]

\* NORMALIZED_PATH_RE.match
NORMALIZED_PATH_RE(p) ==
    Len(p) >= 1 /\ p[1] = "$" /\ NP_Run(p, 2, Len(p))["segment"] = "segment"

\* NormalizedJPath.normalize_path: the escaped argument, or ValueError
normalize_path(jpath_str) ==
    IF jpath_str = << >> THEN [ exc |-> "ValueError", path |-> << >> ]
    ELSE LET escaped_path == escape_string_content(jpath_str)
         IN IF NORMALIZED_PATH_RE(escaped_path)
            THEN [ exc |-> "", path |-> escaped_path ]
            ELSE [ exc |-> "ValueError", path |-> escaped_path ]

\* f"{jpath}[{index}]"
IndexPathStr(jpath, index) == jpath \o << "[" >> \o IntToStr(index) \o << "]" >>
\* f"{jpath}['{name}']"
NamePathStr(jpath, name) ==
    jpath \o << "[", SINGLE_QUOTE >> \o name \o << SINGLE_QUOTE, "]" >>

-----------------------------------------------------------------------------
(* JSON values.  A list or dict is a reference to a heap cell; a str       *)
(* carries its characters and the identity of the Python object.           *)

Null == [ t |-> "null" ]
BoolVal(b) == [ t |-> "bool", b |-> b ]
IntVal(n) == [ t |-> "int", n |-> n ]
\* the float n.0
FloatVal(n) == [ t |-> "float", n |-> n ]
StrVal(s, oid) == [ t |-> "str", s |-> s, id |-> oid ]
Ref(a) == [ t |-> "ref", a |-> a ]

Array(elems) == [ kind |-> "arr", elems |-> elems ]
Object(keys, vals) == [ kind |-> "obj", keys |-> keys, vals |-> vals ]

IsList(v) == v.t = "ref" /\ heap[v.a].kind = "arr"
IsDict(v) == v.t = "ref" /\ heap[v.a].kind = "obj"

\* isinstance(v, JSON_PRIMITIVE_TYPES): ( str, int, float, bool, NoneType )
JSON_PRIMITIVE_TYPES(v) == v.t \in { "str", "int", "float", "bool", "null" }
\* isinstance(v, JSON_ARRAY_TYPES): ( list, tuple, Sequence ); a str is a Sequence
JSON_ARRAY_TYPES(v) == IsList(v) \/ v.t = "str"
\* isinstance(v, JSON_OBJECT_TYPES): ( dict, Mapping )
JSON_OBJECT_TYPES(v) == IsDict(v)
\* isinstance(v, JSON_STRUCTURED_TYPES): ( dict, list, tuple, Mapping, Sequence )
JSON_STRUCTURED_TYPES(v) == IsList(v) \/ IsDict(v) \/ v.t = "str"

\* the characters that occur in the enumerated documents and queries
Alphabet == << "a", "b", "z", SINGLE_QUOTE, BACKSLASH, "<01>" >>
\* identity of the one-character str object the runtime hands out for s[i]
CharObjId(c) == 0 - (CHOOSE i \in 1..Len(Alphabet) : Alphabet[i] = c)

\* Python id(): containers by address, str objects by their identity; the
\* identity of any other primitive never coincides with one of those
id(v) == CASE v.t = "ref" -> v.a
           [] v.t = "str" -> v.id
           [] OTHER -> 0

\* len(v) of a list, dict or str
len(v) ==
    IF v.t = "str" THEN Len(v.s)
    ELSE IF heap[v.a].kind = "arr" THEN Len(heap[v.a].elems)
    ELSE Len(heap[v.a].keys)

\* v[i] of a list or str, i counted from 0
getitem(v, i) ==
    IF v.t = "str" THEN StrVal(<< v.s[i + 1] >>, CharObjId(v.s[i + 1]))
    ELSE heap[v.a].elems[i + 1]

\* key in dict
HasKey(v, name) == \E k \in 1..Len(heap[v.a].keys) : heap[v.a].keys[k] = name
\* dict[key]
getmember(v, name) ==
    heap[v.a].vals[CHOOSE k \in 1..Len(heap[v.a].keys) : heap[v.a].keys[k] = name]

-----------------------------------------------------------------------------
(* Evaluator (evaluating/evaluator.py).  Every visit returns               *)
(* [exc, nodes, warns]: the exception it raised ("" if none), the VNodes   *)
(* of its output nodelist and the warnings it logged.                      *)

\* default of the max_depth parameters
max_depth == 32

VNode(jpath, jvalue) == [ jpath |-> jpath, jvalue |-> jvalue ]
Warning(kind, jpath) == [ kind |-> kind, path |-> jpath ]
NoResult == [ exc |-> "", nodes |-> << >>, warns |-> << >> ]

\* the path string and value of child number i (from 0) of a list, str or dict
ChildPathStr(jpath, v, i) ==
    IF JSON_ARRAY_TYPES(v) THEN IndexPathStr(jpath, i)
    ELSE NamePathStr(jpath, heap[v.a].keys[i + 1])
ChildValue(v, i) ==
    IF JSON_ARRAY_TYPES(v) THEN getitem(v, i) ELSE heap[v.a].vals[i + 1]

\* _children_of: the child nodes of a list, str or dict node; a child that is
\* its own parent is skipped with a warning
_children_of(parent_node) ==
    LET v == parent_node.jvalue
        n == IF JSON_STRUCTURED_TYPES(v) THEN len(v) ELSE 0
        RECURSIVE loop(_, _)
        loop(i, acc) ==
            IF i >= n \/ acc.exc # "" THEN acc
            ELSE LET np == normalize_path(ChildPathStr(parent_node.jpath, v, i))
                     child == ChildValue(v, i)
                 IN IF np.exc # "" THEN [ acc EXCEPT !.exc = np.exc ]
                    ELSE IF id(child) = id(v)
                    THEN loop(i + 1, [ acc EXCEPT !.warns = Append(@, Warning("Cycle", np.path)) ])
                    ELSE loop(i + 1, [ acc EXCEPT !.nodes = Append(@, VNode(np.path, child)) ])
    IN loop(0, NoResult)

\* _collect_vnodes_and_their_descendants: breadth-first collection of the
\* containers below (and including) initial_vnode
_collect_vnodes_and_their_descendants(initial_vnode) ==
    LET RECURSIVE enqueue(_, _, _, _)
        \* the children of cur appended to the queue; st.exc set if a path raises
        enqueue(cur, depth, i, st) ==
            IF i >= len(cur.jvalue) \/ st.exc # "" THEN st
            ELSE LET np == normalize_path(ChildPathStr(cur.jpath, cur.jvalue, i))
                 IN IF np.exc # "" THEN [ st EXCEPT !.exc = np.exc ]
                    ELSE enqueue(cur, depth, i + 1,
                           [ st EXCEPT !.queue = Append(@,
                               [ node |-> VNode(np.path, ChildValue(cur.jvalue, i)),
                                 depth |-> depth + 1 ]) ])
        RECURSIVE bfs(_)
        bfs(st) ==
            IF st.queue = << >> \/ st.exc # "" THEN st
            ELSE LET cur == Head(st.queue).node
                     depth == Head(st.queue).depth
                     popped == [ st EXCEPT !.queue = Tail(@) ]
                 IN IF JSON_PRIMITIVE_TYPES(cur.jvalue) THEN bfs(popped)
                    ELSE IF depth >= max_depth
                    THEN bfs([ popped EXCEPT !.warns = Append(@, Warning("Depth", cur.jpath)) ])
                    ELSE IF id(cur.jvalue) \in st.instance_ids
                    THEN bfs([ popped EXCEPT !.warns = Append(@, Warning("Cycle", cur.jpath)) ])
                    ELSE bfs(enqueue(cur, depth, 0,
                               [ popped EXCEPT !.instance_ids = @ \cup { id(cur.jvalue) },
                                               !.nodes = Append(@, cur) ]))
        final == bfs([ queue |-> << [ node |-> initial_vnode, depth |-> 0 ] >>,
                       instance_ids |-> { }, nodes |-> << >>, warns |-> << >>,
                       exc |-> "" ])
    IN [ exc |-> final.exc, nodes |-> final.nodes, warns |-> final.warns ]

\* normalize_list_index / normalize_slice_parameter
normalize_list_index(list_index, array_len) ==
    IF list_index >= 0 THEN list_index ELSE array_len + list_index

\* one result after another: outputs and warnings concatenate, an exception
\* ends the evaluation
Then(acc, r) ==
    IF acc.exc # "" THEN acc
    ELSE [ exc |-> r.exc, nodes |-> acc.nodes \o r.nodes, warns |-> acc.warns \o r.warns ]

\* visit_NameSelectorNode
visit_NameSelectorNode(node, input_nodelist) ==
    LET RECURSIVE loop(_, _)
        loop(k, acc) ==
            IF k > Len(input_nodelist) \/ acc.exc # "" THEN acc
            ELSE LET input_node == input_nodelist[k]
                 IN IF JSON_OBJECT_TYPES(input_node.jvalue)
                       /\ HasKey(input_node.jvalue, node.member_name)
                    THEN LET np == normalize_path(NamePathStr(input_node.jpath, node.member_name))
                         IN IF np.exc # "" THEN [ acc EXCEPT !.exc = np.exc ]
                            ELSE loop(k + 1, [ acc EXCEPT !.nodes = Append(@,
                                   VNode(np.path, getmember(input_node.jvalue, node.member_name))) ])
                    ELSE loop(k + 1, acc)
    IN loop(1, NoResult)

\* visit_WildcardSelectorNode
visit_WildcardSelectorNode(node, input_nodelist) ==
    LET RECURSIVE loop(_, _)
        loop(k, acc) ==
            IF k > Len(input_nodelist) \/ acc.exc # "" THEN acc
            ELSE loop(k + 1, Then(acc, _children_of(input_nodelist[k])))
    IN loop(1, NoResult)

\* visit_IndexSelectorNode
visit_IndexSelectorNode(node, input_nodelist) ==
    LET RECURSIVE loop(_, _)
        loop(k, acc) ==
            IF k > Len(input_nodelist) \/ acc.exc # "" THEN acc
            ELSE LET input_node == input_nodelist[k]
                     jvalue == input_node.jvalue
                 IN IF ~ JSON_ARRAY_TYPES(jvalue) THEN loop(k + 1, acc)
                    ELSE IF len(jvalue) = 0 THEN loop(k + 1, acc)
                    ELSE LET index_normal == normalize_list_index(node.index, len(jvalue))
                         IN IF 0 <= index_normal /\ index_normal < len(jvalue)
                            THEN LET np == normalize_path(IndexPathStr(input_node.jpath, index_normal))
                                 IN IF np.exc # "" THEN [ acc EXCEPT !.exc = np.exc ]
                                    ELSE loop(k + 1, [ acc EXCEPT !.nodes = Append(@,
                                           VNode(np.path, getitem(jvalue, index_normal))) ])
                            ELSE loop(k + 1, acc)
    IN loop(1, NoResult)

\* JPathEvaluator.visit dispatched on a selector node
visit_Selector(selector, input_nodelist) ==
    CASE selector.t = "name" -> visit_NameSelectorNode(selector, input_nodelist)
      [] selector.t = "index" -> visit_IndexSelectorNode(selector, input_nodelist)
      [] selector.t = "wildcard" -> visit_WildcardSelectorNode(selector, input_nodelist)

\* the nodes of a list whose jvalue identity is not among ids
ExcludeIds(nodes, ids) == SelectSeq(nodes, LAMBDA nd : id(nd.jvalue) \notin ids)

\* visit_DescendantSegment
visit_DescendantSegment(node, input_nodelist) ==
    LET RECURSIVE selectors(_, _, _, _)
        \* R_i: every selector applied to di_from_sequence
        selectors(di, instance_ids, j, acc) ==
            IF j > Len(node.selectors) \/ acc.exc # "" THEN acc
            ELSE LET out == visit_Selector(node.selectors[j], << di >>)
                 IN selectors(di, instance_ids, j + 1,
                      Then(acc, [ out EXCEPT !.nodes = ExcludeIds(@, instance_ids) ]))
        RECURSIVE inner(_, _, _, _)
        \* R_1 + ... + R_n over the sequence D_1 .. D_n
        inner(di_vnode_sequence, i, instance_ids, acc) ==
            IF i > Len(di_vnode_sequence) \/ acc.exc # "" THEN acc
            ELSE LET di == di_vnode_sequence[i]
                     ids == instance_ids \cup { id(di.jvalue) }
                 IN inner(di_vnode_sequence, i + 1, ids, selectors(di, ids, 1, acc))
        RECURSIVE outer(_, _)
        outer(k, acc) ==
            IF k > Len(input_nodelist) \/ acc.exc # "" THEN acc
            ELSE LET collected == _collect_vnodes_and_their_descendants(input_nodelist[k])
                     started == Then(acc, [ collected EXCEPT !.nodes = << >> ])
                 IN outer(k + 1, inner(collected.nodes, 1, { }, started))
    IN outer(1, NoResult)

\* visit_SegmentNode
visit_SegmentNode(node, input_nodelist) ==
    IF node.kind = "descendant" THEN visit_DescendantSegment(node, input_nodelist)
    ELSE LET RECURSIVE loop(_, _)
             loop(j, acc) ==
                 IF j > Len(node.selectors) \/ acc.exc # "" THEN acc
                 ELSE loop(j + 1, Then(acc, visit_Selector(node.selectors[j], input_nodelist)))
         IN loop(1, NoResult)

-----------------------------------------------------------------------------
(* WellFormedValidQuery.eval: one action per step of                       *)
(* visit_JsonPathQueryNode                                                 *)

Pending == [ status |-> "none" ]
Returned(nodes) == [ status |-> "returned", nodes |-> nodes ]
Raised(exc) == [ status |-> "raised", exc |-> exc ]

\* RootNode.json_value setter: the one-node root nodelist
root_nodelist(json_value) == << VNode(normalize_path(<< "$" >>).path, json_value) >>

\* eval up to and including visit_RootNode: a root value of None is reported
\* as a failure, and eval's "raise rt_result.error" of the RTError, which is
\* no exception class, raises TypeError
visit_RootNode ==
    /\ pc = "start"
    /\ IF root = Null
       THEN /\ pc' = "done"
            /\ result' = Raised("TypeError")
            /\ UNCHANGED << nodelist, segIdx, rootNode >>
       ELSE /\ pc' = "segments"
            /\ rootNode' = [ json_value |-> root, root_nodelist |-> root_nodelist(root) ]
            /\ nodelist' = rootNode'.root_nodelist
            /\ segIdx' = 1
            /\ UNCHANGED result
    /\ UNCHANGED << heap, root, query, warnings, cmpVars, parseVars, callVars, regVars >>

\* one iteration of the segment loop of visit_JsonPathQueryNode
visit_SegmentStep ==
    /\ pc = "segments"
    /\ segIdx <= Len(query)
    /\ LET out == visit_SegmentNode(query[segIdx], nodelist)
       IN /\ warnings' = warnings \o out.warns
          /\ IF out.exc # ""
             THEN /\ pc' = "done"
                  /\ result' = Raised(out.exc)
                  /\ UNCHANGED << nodelist, segIdx >>
             ELSE /\ nodelist' = out.nodes
                  /\ segIdx' = segIdx + 1
                  /\ UNCHANGED << pc, result >>
    /\ UNCHANGED << heap, root, query, rootNode, cmpVars, parseVars, callVars, regVars >>

\* the query result is stored in the context and eval returns it
eval_Return ==
    /\ pc = "segments"
    /\ segIdx > Len(query)
    /\ pc' = "done"
    /\ result' = Returned(nodelist)
    /\ UNCHANGED << heap, root, query, segIdx, nodelist, warnings, rootNode,
                    cmpVars, parseVars, callVars, regVars >>

NextEval == visit_RootNode \/ visit_SegmentStep \/ eval_Return

-----------------------------------------------------------------------------
(* Comparisons (evaluating/compare_ops.py)                                 *)

\* the special result Nothing, and an EvaluatorValue wrapping a value
Nothing == [ t |-> "nothing" ]
EvaluatorValue(v) == [ t |-> "evaluator_value", value |-> v ]

\* _unwrap
_unwrap(operand) == IF operand.t = "evaluator_value" THEN operand.value ELSE operand

\* isinstance(v, (int, float)): bool is a subclass of int
IsIntOrFloat(v) == v.t \in { "int", "float", "bool" }
\* the number Python compares: True is 1 and False is 0
NumberOf(v) == IF v.t = "bool" THEN (IF v.b THEN 1 ELSE 0) ELSE v.n
\* type(v)
TypeOf(v) == IF v.t = "ref" THEN heap[v.a].kind ELSE v.t

\* ord(c)
CodePoint(c) ==
    CASE c = "<01>" -> 1
      [] c = SINGLE_QUOTE -> 39
      [] c = BACKSLASH -> 92
      [] c = "a" -> 97
      [] c = "b" -> 98
      [] c = "z" -> 122

RECURSIVE StrLess(_, _)
\* str < str: by code point, a proper prefix first
StrLess(s1, s2) ==
    IF s2 = << >> THEN FALSE
    ELSE IF s1 = << >> THEN TRUE
    ELSE IF Head(s1) # Head(s2) THEN CodePoint(Head(s1)) < CodePoint(Head(s2))
    ELSE StrLess(Tail(s1), Tail(s2))

\* what a call of _eval_eq shares with the calls it makes: the ids seen on
\* either side, the warnings logged and any exception; frames holds the array
\* and object loops in progress, innermost last, each with the index it
\* will look at next and the paths its last iteration assigned.  descents
\* records, for the claims, the left containers whose loop was entered.  The
\* dicts created by the top-level call hold only the ids of its two new root
\* VNodes, which are the ids of no value.
EqStart == [ frames |-> << >>, left_ids |-> { }, right_ids |-> { }, warns |-> << >>,
             descents |-> << >>, done |-> FALSE, val |-> FALSE, exc |-> "" ]
EqReturn(st, val) == [ st EXCEPT !.done = TRUE, !.val = val, !.frames = << >> ]
EqRaise(st, exc) == [ st EXCEPT !.done = TRUE, !.exc = exc, !.frames = << >> ]

\* _depth_exceeded
_depth_exceeded(depth) == depth >= max_depth

\* _cycle_detected: [hit, st]; a hit on the left returns before the right
\* value is looked at
_cycle_detected(left_node, right_node, st) ==
    LET l_val == left_node.jvalue
        r_val == right_node.jvalue
    IN IF JSON_STRUCTURED_TYPES(l_val) /\ id(l_val) \in st.left_ids
       THEN [ hit |-> TRUE,
              st |-> [ st EXCEPT !.warns = Append(@, Warning("Cycle", left_node.jpath)) ] ]
       ELSE LET st1 == IF JSON_STRUCTURED_TYPES(l_val)
                       THEN [ st EXCEPT !.left_ids = @ \cup { id(l_val) } ] ELSE st
            IN IF JSON_STRUCTURED_TYPES(r_val) /\ id(r_val) \in st1.right_ids
               THEN [ hit |-> TRUE,
                      st |-> [ st1 EXCEPT !.warns = Append(@, Warning("Cycle", right_node.jpath)) ] ]
               ELSE [ hit |-> FALSE,
                      st |-> IF JSON_STRUCTURED_TYPES(r_val)
                             THEN [ st1 EXCEPT !.right_ids = @ \cup { id(r_val) } ] ELSE st1 ]

\* _eval_eq from its first line to the start of its loop: the value it
\* returns at once ("true", "false"), or "loop" with the frame of its loop
\* pushed; sets the warning of _depth_exceeded
EqCall(left_raw, right_raw, left_path, right_path, cur_depth, st) ==
    LET at_once(val) == [ kind |-> val, st |-> st ]
    IN CASE left_raw = Nothing /\ right_raw = Nothing -> at_once("true")
         [] left_raw = Nothing \/ right_raw = Nothing -> at_once("false")
         [] OTHER ->
            CASE IsIntOrFloat(left_raw) /\ IsIntOrFloat(right_raw) ->
                   at_once(IF NumberOf(left_raw) = NumberOf(right_raw) THEN "true" ELSE "false")
              [] OTHER ->
                 CASE TypeOf(left_raw) # TypeOf(right_raw) -> at_once("false")
                   [] left_raw = Null -> at_once("true")
                   [] left_raw.t = "str" ->
                        at_once(IF left_raw.s = right_raw.s THEN "true" ELSE "false")
                   [] OTHER ->
                      CASE len(left_raw) # len(right_raw) -> at_once("false")
                        [] IsDict(left_raw)
                           /\ { heap[left_raw.a].keys[k] : k \in 1..len(left_raw) }
                              # { heap[right_raw.a].keys[k] : k \in 1..len(right_raw) } ->
                             at_once("false")
                        [] OTHER ->
                           IF _depth_exceeded(cur_depth)
                           THEN [ kind |-> "false",
                                  st |-> [ st EXCEPT !.warns =
                                             Append(@, Warning("Depth", left_path)) ] ]
                           ELSE [ kind |-> "loop",
                                  st |-> [ st EXCEPT
                                      !.descents = Append(@, id(left_raw)),
                                      !.frames = Append(@,
                                          [ left_raw |-> left_raw, right_raw |-> right_raw,
                                            i |-> 0, left_path |-> left_path,
                                            right_path |-> right_path,
                                            cur_depth |-> cur_depth ]) ] ]

\* one iteration of the innermost loop of _eval_eq, or its return True
EqStep(st) ==
    LET f == st.frames[Len(st.frames)]
        outer == SubSeq(st.frames, 1, Len(st.frames) - 1)
        is_obj == IsDict(f.left_raw)
        key == IF is_obj THEN heap[f.left_raw.a].keys[f.i + 1] ELSE << >>
        l_np == normalize_path(ChildPathStr(f.left_path, f.left_raw, f.i))
        r_np == normalize_path(IF is_obj THEN NamePathStr(f.right_path, key)
                               ELSE IndexPathStr(f.right_path, f.i))
        left_node == VNode(l_np.path, ChildValue(f.left_raw, f.i))
        right_node == VNode(r_np.path, IF is_obj THEN getmember(f.right_raw, key)
                                       ELSE getitem(f.right_raw, f.i))
        \* the loop of an array calls _cycle_detected, the loop of an object does not
        cyc == IF is_obj THEN [ hit |-> FALSE, st |-> st ]
               ELSE _cycle_detected(left_node, right_node, st)
        next == [ f EXCEPT !.i = @ + 1, !.left_path = l_np.path, !.right_path = r_np.path ]
        called == EqCall(left_node.jvalue, right_node.jvalue, l_np.path, r_np.path,
                         f.cur_depth + 1,
                         [ cyc.st EXCEPT !.frames = Append(outer, next) ])
    IN CASE f.i >= len(f.left_raw) ->
              IF outer = << >> THEN EqReturn(st, TRUE) ELSE [ st EXCEPT !.frames = outer ]
         [] l_np.exc # "" -> EqRaise(st, l_np.exc)
         [] r_np.exc # "" -> EqRaise(st, r_np.exc)
         [] cyc.hit -> EqReturn(cyc.st, FALSE)
         [] called.kind = "false" -> EqReturn(called.st, FALSE)
         [] OTHER -> called.st

RECURSIVE EqRun(_)
EqRun(st) == IF st.done THEN st ELSE EqRun(EqStep(st))

\* _eval_eq, its recursion carried out on the frames of EqStart; the result
\* is [val, exc, warns, descents]
_eval_eq(left_raw, right_raw) ==
    LET called == EqCall(left_raw, right_raw, << "$" >>, << "$" >>, 0, EqStart)
        final == IF called.kind = "loop" THEN EqRun(called.st)
                 ELSE EqReturn(called.st, called.kind = "true")
    IN [ val |-> final.val, exc |-> final.exc, warns |-> final.warns,
         descents |-> final.descents ]

\* _eval_lt
_eval_lt(left_raw, right_raw) ==
    IF left_raw = Nothing \/ right_raw = Nothing THEN FALSE
    ELSE IF IsIntOrFloat(left_raw) /\ IsIntOrFloat(right_raw)
    THEN NumberOf(left_raw) < NumberOf(right_raw)
    ELSE IF left_raw.t = "str" /\ right_raw.t = "str" THEN StrLess(left_raw.s, right_raw.s)
    ELSE FALSE

ComparisonOperatorType == { "EQ", "NE", "GTE", "LTE", "GT", "LT" }

\* the result of the operator self, from the results of == and of < in
\* both directions
Compared(self, eq_done, less, greater) ==
    CASE self = "EQ" -> eq_done
      [] self = "NE" -> [ eq_done EXCEPT !.val = ~ @ ]
      [] self = "LT" -> [ val |-> less, exc |-> "", warns |-> << >>, descents |-> << >> ]
      [] self = "LTE" -> IF less THEN [ val |-> TRUE, exc |-> "", warns |-> << >>,
                                        descents |-> << >> ]
                         ELSE eq_done
      [] self = "GT" -> [ val |-> greater, exc |-> "", warns |-> << >>, descents |-> << >> ]
      [] self = "GTE" -> IF greater THEN [ val |-> TRUE, exc |-> "", warns |-> << >>,
                                           descents |-> << >> ]
                         ELSE eq_done

\* the comparison of the unwrapped operands
CompareRaw(self, left_raw, right_raw) ==
    Compared(self, _eval_eq(left_raw, right_raw), _eval_lt(left_raw, right_raw),
             _eval_lt(right_raw, left_raw))

\* ComparisonOperatorType.eval: the BooleanValue, or the exception raised
ComparisonOperatorType_eval(self, left_operand, right_operand) ==
    CompareRaw(self, _unwrap(left_operand), _unwrap(right_operand))

-----------------------------------------------------------------------------
(* The root values and queries the model enumerates                        *)

\* member names of an enumerated object, by position: plain names, or names
\* that contain a quote or a control character
PlainKeys == << << "a" >>, << "b" >>, << "z" >> >>
SpecialKeys == << << SINGLE_QUOTE >>, << "a" >>, << "<01>" >> >>
SwappedKeys == << << "a" >>, << SINGLE_QUOTE >>, << "<01>" >> >>

\* identity of a str object that is not one of the runtime's cached ones
StrObj == 0 - 101

RECURSIVE SeqsUpTo(_, _)
\* the sequences over S of length at most n
SeqsUpTo(S, n) ==
    IF n = 0 THEN { << >> }
    ELSE LET shorter == SeqsUpTo(S, n - 1)
         IN shorter \cup { Append(q, x) : q \in shorter, x \in S }

\* the containers with the given element values; the member names of an
\* object are the first names of one of the lists of names
CellsOver(vals, names) ==
    LET contents == SeqsUpTo(vals, MaxLen)
    IN { Array(c) : c \in contents }
       \cup { Object(SubSeq(keys, 1, Len(c)), c) : c \in contents, keys \in names }

CellValues(cell) == IF cell.kind = "arr" THEN cell.elems ELSE cell.vals

RECURSIVE ScanRefs(_, _)
\* Containers are numbered in the order a breadth-first walk from container 1
\* first meets them: the number the next new container gets after the values
\* in elems have been walked, 0 if a reference is out of order
ScanRefs(elems, next) ==
    IF elems = << >> \/ next = 0 THEN next
    ELSE LET v == Head(elems)
         IN IF v.t # "ref" \/ v.a < next THEN ScanRefs(Tail(elems), next)
            ELSE IF v.a = next THEN ScanRefs(Tail(elems), next + 1)
            ELSE 0

RECURSIVE GrowHeaps(_, _)
\* the heaps of at most MaxCells containers and MaxSlots values in which
\* every container is reachable from container 1, as [h, next, slots]
GrowHeaps(prims, k) ==
    IF k = 0 THEN { [ h |-> << >>, next |-> 2, slots |-> 0 ] }
    ELSE LET before == GrowHeaps(prims, k - 1)
             cells == CellsOver(prims \cup { Ref(a) : a \in 1..MaxCells },
                               { PlainKeys, SpecialKeys })
             grown == { [ h |-> Append(st.h, c),
                          next |-> ScanRefs(CellValues(c), st.next),
                          slots |-> st.slots + Len(CellValues(c)) ] :
                        st \in { b \in before : Len(b.h) = k - 1 /\ k < b.next },
                        c \in cells }
         IN before \cup { g \in grown : g.next # 0 /\ g.next <= MaxCells + 1
                                          /\ g.slots <= MaxSlots }

\* the complete heaps: every container that is referred to exists
Heaps(prims) ==
    { st.h : st \in { g \in GrowHeaps(prims, MaxCells) : g.next = Len(g.h) + 1 } }

RECURSIVE ChainCells(_, _)
ChainCells(i, n) ==
    IF i = n THEN << Array(<< IntVal(1) >>) >>
    ELSE << Array(<< Ref(i + 1) >>) >> \o ChainCells(i + 1, n)
\* n arrays nested in one another, the innermost one holding a number
ChainHeap(n) == ChainCells(1, n)

WildcardSelector == [ t |-> "wildcard" ]
NameSelector(name) == [ t |-> "name", member_name |-> name ]
IndexSelector(i) == [ t |-> "index", index |-> i ]
ChildSegment(selectors) == [ kind |-> "child", selectors |-> selectors ]
DescendantSegment(selectors) == [ kind |-> "descendant", selectors |-> selectors ]

\* $..*
DescendantWildcardQuery == << DescendantSegment(<< WildcardSelector >>) >>

\* the queries evaluated besides $..* : $, $[*], $['a'], $[0], $[-1],
\* $['z', 1, 'a'], $['a'][0], $['a']['b'], $[0]['a'], $[1][-3]
SelectorQueries ==
    { << >>,
      << ChildSegment(<< WildcardSelector >>) >>,
      << ChildSegment(<< NameSelector(<< "a" >>) >>) >>,
      << ChildSegment(<< IndexSelector(0) >>) >>,
      << ChildSegment(<< IndexSelector(0 - 1) >>) >>,
      << ChildSegment(<< NameSelector(<< "z" >>), IndexSelector(1), NameSelector(<< "a" >>) >>) >>,
      << ChildSegment(<< NameSelector(<< "a" >>) >>), ChildSegment(<< IndexSelector(0) >>) >>,
      << ChildSegment(<< NameSelector(<< "a" >>) >>), ChildSegment(<< NameSelector(<< "b" >>) >>) >>,
      << ChildSegment(<< IndexSelector(0) >>), ChildSegment(<< NameSelector(<< "a" >>) >>) >>,
      << ChildSegment(<< IndexSelector(1) >>), ChildSegment(<< IndexSelector(0 - 3) >>) >> }

\* the primitive values of the enumerated documents
DocPrims == { IntVal(1), StrVal(<< "a", "b" >>, StrObj) }

\* RootNode.__init__: no value and an empty root nodelist
RootNode == [ json_value |-> Null, root_nodelist |-> << >> ]

\* the descriptors of the function extensions: FunctionParam and FunctionNode
FunctionParam(param_name, param_type) == [ param_name |-> param_name, param_type |-> param_type ]
FunctionNode(func_name, return_type, param_list) ==
    [ func_name |-> func_name, return_param |-> FunctionParam("return", return_type),
      param_list |-> param_list ]
\* register_known_functions: the registry once the module is imported
KnownFunctions ==
    LET known == << FunctionNode("length", "ValueType", << FunctionParam("value", "ValueType") >>),
                    FunctionNode("count", "ValueType", << FunctionParam("nodes", "NodesType") >>),
                    FunctionNode("match", "LogicalType",
                                 << FunctionParam("string", "ValueType"),
                                    FunctionParam("iregexp_str", "ValueType") >>),
                    FunctionNode("search", "LogicalType",
                                 << FunctionParam("string", "ValueType"),
                                    FunctionParam("iregexp_str", "ValueType") >>),
                    FunctionNode("value", "ValueType", << FunctionParam("node", "NodesType") >>) >>
    IN [ name \in { known[k].func_name : k \in 1..Len(known) } |->
           known[CHOOSE k \in 1..Len(known) : known[k].func_name = name] ]

\* no function call under way, and the registry as the import leaves it
IdleCall == fnCall = [ func_name |-> "", args |-> << >> ] /\ fnOut = [ status |-> "none" ]
IdleRegistry ==
    /\ functions = KnownFunctions
    /\ registry = [ instance |-> TRUE, lock |-> 0 ]
    /\ threads = << >>

InitOther ==
    /\ cmpLeft = Null /\ cmpRight = Null /\ cmpOut = << >>
    /\ tokens = << >> /\ parseOut = Pending /\ lexer_text = << >> /\ lexOut = Pending
    /\ IdleCall /\ IdleRegistry

InitEvalState ==
    /\ pc = "start" /\ segIdx = 0 /\ nodelist = << >>
    /\ warnings = << >> /\ result = Pending /\ rootNode = RootNode

\* a root value built by the caller, and a compiled query
Init ==
    /\ \/ /\ heap \in Heaps({ IntVal(1) })
          /\ root = Ref(1)
          /\ query = DescendantWildcardQuery
       \/ /\ \E n \in max_depth..(max_depth + ChainExtra) : heap = ChainHeap(n)
          /\ root = Ref(1)
          /\ query = DescendantWildcardQuery
       \/ /\ heap \in { h \in Heaps(DocPrims) : Len(h) <= 2 }
          /\ root = Ref(1)
          /\ query \in SelectorQueries
       \/ /\ heap = << >>
          /\ root \in DocPrims \cup { Null, BoolVal(FALSE) }
          /\ query \in SelectorQueries \cup { DescendantWildcardQuery }
    /\ InitEvalState
    /\ InitOther

Spec == Init /\ [][NextEval]_vars

------------------------------------------------------------------------------
(* Function extensions (parsing/function.py) and their evaluation          *)
(* (evaluating/evaluator.py).  A function's eval returns [exc, value].     *)

\* unescape_string_content for the one-character escapes (no \uXXXX)
unescape_string_content(content) ==
    LET _UNESCAPE_MAP(c) == CASE c = "b" -> "<BS>" [] c = "t" -> "<HT>" [] c = "n" -> "<LF>"
                              [] c = "f" -> "<FF>" [] c = "r" -> "<CR>" [] OTHER -> c
        escapable == { "b", "t", "n", "f", "r", "\"", SINGLE_QUOTE, "/", BACKSLASH }
        RECURSIVE scan(_, _)
        scan(k, out) ==
            IF k > Len(content) THEN out
            ELSE IF content[k] = BACKSLASH /\ k < Len(content) /\ content[k + 1] \in escapable
            THEN scan(k + 2, Append(out, _UNESCAPE_MAP(content[k + 1])))
            ELSE scan(k + 1, Append(out, content[k]))
    IN scan(1, << >>)

\* the values a literal of a filter evaluates to
StringValue(raw_string) ==
    EvaluatorValue(StrVal(unescape_string_content(SubSeq(raw_string, 2, Len(raw_string) - 1)),
                          StrObj))
NumberValue(n) == EvaluatorValue(IntVal(n))
BooleanValue(b) == EvaluatorValue(BoolVal(b))
NullValue == EvaluatorValue(Null)

VNodeList(node_list) == [ t |-> "nodelist", node_list |-> node_list ]
LogicalType(b) == [ t |-> "logical", b |-> b ]

\* what a function's eval hands back
FnValue(value) == [ exc |-> "", value |-> value ]
FnRaise(exc) == [ exc |-> exc, value |-> Nothing ]

\* LengthFunction.eval
LengthFunction_eval(value) ==
    LET measured(val) ==
            IF val.t = "str" THEN FnValue(IntVal(len(val)))
            ELSE IF JSON_ARRAY_TYPES(val) THEN FnValue(IntVal(len(val)))
            ELSE IF JSON_OBJECT_TYPES(val) THEN FnValue(IntVal(len(val)))
            ELSE FnValue(Nothing)
    IN IF value.t = "nodelist"
       THEN IF Len(value.node_list) = 1 THEN measured(value.node_list[1].jvalue)
            ELSE IF Len(value.node_list) = 0 THEN FnValue(Nothing)
            ELSE FnRaise("ValueError")
       ELSE measured(value)

\* the printable ASCII characters in code point order, from %x20
PRINTABLE ==
    << " ", "!", "\"", "#", "$", "%", "&", SINGLE_QUOTE, "(", ")", "*", "+", ",", "-", ".", "/",
       "0", "1", "2", "3", "4", "5", "6", "7", "8", "9", ":", ";", "<", "=", ">", "?",
       "@", "A", "B", "C", "D", "E", "F", "G", "H", "I", "J", "K", "L", "M", "N", "O",
       "P", "Q", "R", "S", "T", "U", "V", "W", "X", "Y", "Z", "[", BACKSLASH, "]", "^", "_",
       "<GRAVE>", "a", "b", "c", "d", "e", "f", "g", "h", "i", "j", "k", "l", "m", "n", "o",
       "p", "q", "r", "s", "t", "u", "v", "w", "x", "y", "z", "{", "|", "}", "~" >>
ord(c) == 31 + (CHOOSE k \in 1..Len(PRINTABLE) : PRINTABLE[k] = c)

\* re.compile of the standard library: the message of the re.error raised,
\* "" when the pattern compiles.  For patterns made of literal characters,
\* ".", "$", groups "(" ")", character sets "[" "]" with ranges, and "*";
\* a "{" that no digit follows is a literal character.
re_compile(pattern) ==
    LET at(k) == IF k <= Len(pattern) THEN pattern[k] ELSE ""
        special == { "", "(", ")", "*", "[", "$" }
        \* the index of the first special character from k on, the end if none
        run(k) == CHOOSE j \in k..(Len(pattern) + 1) :
                      /\ at(j) \in special
                      /\ \A i \in k..(j - 1) : at(i) \notin special
        RECURSIVE charset(_, _)
        \* the index of the "]" closing the set whose next member is at k,
        \* 0 for an unterminated set, -1 for a bad range
        charset(k, empty) ==
            CASE at(k) = "" -> 0
              [] at(k) = "]" /\ ~empty -> k
              [] at(k) \notin { "", "]" } \/ (at(k) = "]" /\ empty) ->
                    (CASE at(k + 1) # "-" -> charset(k + 1, FALSE)
                       [] at(k + 1) = "-" /\ at(k + 2) = "" -> 0
                       [] at(k + 1) = "-" /\ at(k + 2) = "]" -> k + 2
                       [] at(k + 1) = "-" /\ at(k + 2) \notin { "", "]" } ->
                             IF ord(at(k + 2)) < ord(at(k)) THEN 0 - 1
                             ELSE charset(k + 3, FALSE))
        RECURSIVE scan(_, _, _)
        \* prev is what the subpattern ends with: "" nothing, "at" an
        \* anchor, "repeat" a repetition, "item" anything else
        scan(k, depth, prev) ==
            CASE at(k) = "" ->
                    IF depth > 0 THEN "missing ), unterminated subpattern" ELSE ""
              [] at(k) = "(" -> scan(k + 1, depth + 1, "")
              [] at(k) = ")" ->
                    IF depth = 0 THEN "unbalanced parenthesis"
                    ELSE scan(k + 1, depth - 1, "item")
              [] at(k) = "*" ->
                    (CASE prev \in { "", "at" } -> "nothing to repeat"
                       [] prev = "repeat" -> "multiple repeat"
                       [] prev = "item" -> scan(k + 1, depth, "repeat"))
              [] at(k) = "[" ->
                    LET closing == charset(k + 1, TRUE)
                    IN (CASE closing = 0 -> "unterminated character set"
                          [] closing < 0 -> "bad character range"
                          [] closing > 0 -> scan(closing + 1, depth, "item"))
              [] at(k) = "$" -> scan(k + 1, depth, "at")
              [] at(k) \notin special -> scan(run(k), depth, "item")
    IN scan(1, 0, "")
re_error(pattern) == re_compile(pattern) # ""
\* re.fullmatch: "." matches any character but a line feed
re_fullmatch(pattern, string) ==
    /\ Len(pattern) = Len(string)
    /\ \A k \in 1..Len(pattern) :
         IF pattern[k] = "." THEN string[k] # "<LF>" ELSE pattern[k] = string[k]

\* RegexFuncBase._convert_args: [exc, str_val, regex_str]
_convert_args(string, iregexp_str) ==
    LET is_str(v) == v.t = "str"
        is_StringValue(v) == v.t = "evaluator_value" /\ v.value.t = "str"
        single(v) == v.t = "nodelist" /\ Len(v.node_list) = 1
        first == IF single(string) /\ (is_str(string.node_list[1].jvalue)
                                       \/ is_StringValue(string.node_list[1].jvalue))
                 THEN [ exc |-> "", s |-> _unwrap(string.node_list[1].jvalue).s ]
                 ELSE IF is_str(string) \/ is_StringValue(string)
                 THEN [ exc |-> "", s |-> _unwrap(string).s ]
                 ELSE [ exc |-> "TypeError", s |-> << >> ]
        second == IF single(iregexp_str) /\ is_str(iregexp_str.node_list[1].jvalue)
                  THEN [ exc |-> "", s |-> iregexp_str.node_list[1].jvalue.s ]
                  ELSE IF is_str(iregexp_str) \/ is_StringValue(iregexp_str)
                  THEN [ exc |-> "", s |-> _unwrap(iregexp_str).s ]
                  ELSE [ exc |-> "TypeError", s |-> << >> ]
    IN IF first.exc # "" THEN [ exc |-> first.exc, str_val |-> << >>, regex_str |-> << >> ]
       ELSE [ exc |-> second.exc, str_val |-> first.s, regex_str |-> second.s ]

\* MatchFunction.eval
MatchFunction_eval(string, iregexp_str) ==
    LET converted == _convert_args(string, iregexp_str)
    IN IF converted.exc = "TypeError" THEN FnValue(LogicalType(FALSE))
       ELSE IF re_error(converted.regex_str) THEN FnRaise("re.error")
       ELSE FnValue(LogicalType(re_fullmatch(converted.regex_str, converted.str_val)))

\* visit_FunctionCallNode once the arguments are evaluated: the function's
\* eval is called with them, and what it raises is not caught
visit_FunctionCallNode ==
    /\ pc = "call"
    /\ LET out == CASE fnCall.func_name = "length" -> LengthFunction_eval(fnCall.args[1])
                    [] fnCall.func_name = "match" ->
                           MatchFunction_eval(fnCall.args[1], fnCall.args[2])
       IN fnOut' = IF out.exc # "" THEN Raised(out.exc)
                     ELSE [ status |-> "returned", value |-> out.value ]
    /\ pc' = "called"
    /\ UNCHANGED << heap, root, query, segIdx, nodelist, warnings, result, rootNode,
                    cmpVars, parseVars, fnCall, regVars >>

NextCall == visit_FunctionCallNode

\* the argument values of the enumerated calls: the value of a singular
\* query (a nodelist of one node or none), a literal, or what a nested
\* function call returned
SubjectStrings == { << "a", "b" >>, << "a" >>, << "a", "<LF>" >>, << "a", "<CR>" >>,
                    << "a", "." >>, << "(" >> }
LiteralStrings == { << SINGLE_QUOTE, "a", "b", SINGLE_QUOTE >>, << SINGLE_QUOTE, "a", SINGLE_QUOTE >>,
                    << SINGLE_QUOTE, "a", ".", SINGLE_QUOTE >>,
                    << SINGLE_QUOTE, "a", BACKSLASH, "n", SINGLE_QUOTE >> }
CallHeap == << Array(<< IntVal(1), IntVal(1) >>), Object(<< << "a" >> >>, << IntVal(1) >>) >>
ArgumentValues ==
    { VNodeList(<< VNode(<< "$" >>, v) >>) :
        v \in { StrVal(s, StrObj) : s \in SubjectStrings }
              \cup { IntVal(1), BoolVal(TRUE), Null, Ref(1), Ref(2) } }
    \cup { VNodeList(<< >>), NumberValue(1), BooleanValue(TRUE), NullValue, IntVal(2), Nothing }
    \cup { StringValue(raw) : raw \in LiteralStrings }

InitCall ==
    /\ heap = CallHeap
    /\ \/ \E value \in ArgumentValues : fnCall = [ func_name |-> "length", args |-> << value >> ]
       \/ \E string \in ArgumentValues, iregexp_str \in ArgumentValues :
            fnCall = [ func_name |-> "match", args |-> << string, iregexp_str >> ]
    /\ fnOut = Pending
    /\ pc = "call" /\ root = Ref(1) /\ query = << >> /\ segIdx = 0
    /\ nodelist = << >> /\ warnings = << >> /\ result = Pending /\ rootNode = RootNode
    /\ cmpLeft = Null /\ cmpRight = Null /\ cmpOut = << >>
    /\ tokens = << >> /\ parseOut = Pending /\ lexer_text = << >> /\ lexOut = Pending
    /\ IdleRegistry

SpecCall == InitCall /\ [][NextCall]_vars

-----------------------------------------------------------------------------
(* Comparisons of a filter: the six operators applied to a pair of         *)
(* operands, and to the same pair the other way round                     *)

\* the calls in the order they are made: the operator, and whether the
\* operands are swapped
Calls ==
    << [ op |-> "EQ", swapped |-> FALSE ], [ op |-> "NE", swapped |-> FALSE ],
       [ op |-> "LT", swapped |-> FALSE ], [ op |-> "LTE", swapped |-> FALSE ],
       [ op |-> "GT", swapped |-> FALSE ], [ op |-> "GTE", swapped |-> FALSE ],
       [ op |-> "EQ", swapped |-> TRUE ], [ op |-> "NE", swapped |-> TRUE ],
       [ op |-> "LT", swapped |-> TRUE ], [ op |-> "LTE", swapped |-> TRUE ],
       [ op |-> "GT", swapped |-> TRUE ], [ op |-> "GTE", swapped |-> TRUE ] >>

\* one call of ComparisonOperatorType.eval
Compare ==
    /\ pc = "compare"
    /\ Len(cmpOut) < Len(Calls)
    /\ LET call == Calls[Len(cmpOut) + 1]
           left_operand == IF call.swapped THEN cmpRight ELSE cmpLeft
           right_operand == IF call.swapped THEN cmpLeft ELSE cmpRight
       IN cmpOut' = Append(cmpOut,
                           ComparisonOperatorType_eval(call.op, left_operand, right_operand))
    /\ UNCHANGED << heap, cmpLeft, cmpRight, evalVars, parseVars, callVars, regVars >>

NextCmp == Compare

\* the operands that are no containers
PrimitiveOperands ==
    { Nothing, Null, BoolVal(FALSE), BoolVal(TRUE), IntVal(0), IntVal(1), IntVal(2),
      FloatVal(1), StrVal(<< "a" >>, CharObjId("a")), StrVal(<< "b" >>, CharObjId("b")),
      StrVal(<< "a", "b" >>, StrObj),
      EvaluatorValue(IntVal(1)), EvaluatorValue(BoolVal(TRUE)),
      EvaluatorValue(StrVal(<< "a" >>, CharObjId("a"))) }

\* the values inside the compared containers: a number, the one-character
\* str the runtime caches, and a str object of its own with the same content
CmpPrims == { IntVal(1), StrVal(<< "a" >>, CharObjId("a")), StrVal(<< "a" >>, StrObj) }

\* the heaps of n containers whose values are CmpPrims and each other
CmpHeaps(n) ==
    LET cells == CellsOver(CmpPrims \cup { Ref(a) : a \in 1..n },
                           { PlainKeys, SpecialKeys, SwappedKeys })
    IN { h \in [ 1..n -> cells ] :
           Len(CellValues(h[1])) + Len(CellValues(h[n])) <= MaxSlots }

InitCmp ==
    /\ \/ /\ heap = << >>
          /\ cmpLeft \in PrimitiveOperands /\ cmpRight \in PrimitiveOperands
       \/ /\ heap \in CmpHeaps(1)
          /\ cmpLeft = Ref(1) /\ cmpRight \in PrimitiveOperands \cup { Ref(1) }
       \/ /\ heap \in CmpHeaps(CmpCells)
          /\ cmpLeft = Ref(1) /\ cmpRight = Ref(CmpCells)
       \/ /\ \E n \in max_depth..(max_depth + ChainExtra) : heap = ChainHeap(n)
          /\ cmpLeft = Ref(1) /\ cmpRight = Ref(1)
    /\ cmpOut = << >>
    /\ pc = "compare" /\ root = Null /\ query = << >> /\ segIdx = 0
    /\ nodelist = << >> /\ warnings = << >> /\ result = Pending /\ rootNode = RootNode
    /\ tokens = << >> /\ parseOut = Pending /\ lexer_text = << >> /\ lexOut = Pending
    /\ IdleCall /\ IdleRegistry

SpecCmp == InitCmp /\ [][NextCmp]_vars

------------------------------------------------------------------------------
(* Parser (parsing/parser.py, parsing/parse_result.py).  A production      *)
(* returns [res, token_index, exc]: its ParseResult, the parser's position *)
(* afterwards and the exception it raised ("" if none).  A Python int of   *)
(* any size is a sign and a magnitude in two limbs, [neg, hi, lo].         *)

None == [ none |-> TRUE ]
Limb == 2 ^ 26
INT_MAX == [ neg |-> FALSE, hi |-> 2 ^ 27 - 1, lo |-> Limb - 1 ]
INT_MIN == [ neg |-> TRUE, hi |-> 2 ^ 27 - 1, lo |-> Limb - 1 ]

\* the value of an expression, computed once and handed to what follows
Call(value, follow(_)) == CHOOSE out \in { follow(v) : v \in { value } } : TRUE

\* a < b on Python ints
IntLess(a, b) ==
    LET less(x, y) == x.hi < y.hi \/ (x.hi = y.hi /\ x.lo < y.lo)
    IN CASE a.neg /\ ~b.neg -> TRUE
         [] ~a.neg /\ b.neg -> FALSE
         [] ~a.neg /\ ~b.neg -> less(a, b)
         [] OTHER -> less(b, a)

\* int(text) for an optional "-" and decimal digits
int(text) ==
    LET neg == Len(text) >= 1 /\ text[1] = "-"
        digs == IF neg THEN Tail(text) ELSE text
        value(c) == CHOOSE d \in 0..9 : Digits[d + 1] = c
        carry(hi, low) == [ hi |-> hi * 10 + low \div Limb, lo |-> low % Limb ]
        RECURSIVE read(_, _)
        read(mag, k) ==
            IF k > Len(digs) THEN mag
            ELSE Call(mag.lo * 10 + value(digs[k]),
                      LAMBDA low : Call(carry(mag.hi, low), LAMBDA next : read(next, k + 1)))
        signed(mag) == [ neg |-> neg /\ (mag.hi # 0 \/ mag.lo # 0), hi |-> mag.hi, lo |-> mag.lo ]
    IN Call(read([ hi |-> 0, lo |-> 0 ], 1), signed)

(***************************************************************************)
(* The patterns of shared/jpath_bnf.py and the lexemes of lexing/tokens.py. *)
(* A text is a sequence of characters.  A pattern is matched as re.match    *)
(* matches it, greedily from an index of the text, and gives the index      *)
(* after the match: the index it started from when there is no match.       *)
(***************************************************************************)
DOUBLE_QUOTE == "\""
ALPHA == { "a", "b", "c", "d", "e", "f", "g", "h", "i", "j", "k", "l", "m",
           "n", "o", "p", "q", "r", "s", "t", "u", "v", "w", "x", "y", "z",
           "A", "B", "C", "D", "E", "F", "G", "H", "I", "J", "K", "L", "M",
           "N", "O", "P", "Q", "R", "S", "T", "U", "V", "W", "X", "Y", "Z" }
DIGITS == { "0", "1", "2", "3", "4", "5", "6", "7", "8", "9" }
DIGITS1 == DIGITS \ { "0" }
HEXDIGITS == DIGITS \cup { "a", "b", "c", "d", "e", "f", "A", "B", "C", "D", "E", "F" }
BLANK_CHAR == { " ", "<HT>", "<LF>", "<CR>" }
SLICE_CHARS == DIGITS \cup { ":", "-" }
\* the characters of %x00-7F that the model writes: a character outside this
\* set stands for one of NON_SURROGATE_CODEPOINTS
AsciiChars ==
    ALPHA \cup DIGITS \cup ControlChars \cup
    { " ", "!", DOUBLE_QUOTE, "#", "$", "%", "&", SINGLE_QUOTE, "(", ")", "*", "+",
      ",", "-", ".", "/", ":", ";", "<", "=", ">", "?", "@", "[", BACKSLASH, "]",
      "^", "_", "<GRAVE>", "{", "|", "}", "~", "<DEL>" }
NON_SURROGATE_CODEPOINTS(c) == c # "" /\ c \notin AsciiChars
\* UNESCAPED_CHAR: %x20-21 / %x23-26 / %x28-5B / %x5D-7F / non-surrogate code points
UNESCAPED_CHAR(c) ==
    c # "" /\ c \notin (ControlChars \cup { DOUBLE_QUOTE, SINGLE_QUOTE, BACKSLASH })
NAME_FIRST(c) == c \in ALPHA \/ c = "_" \/ NON_SURROGATE_CODEPOINTS(c)
NAME_CHAR(c) == NAME_FIRST(c) \/ c \in DIGITS

TWO_CHAR_LEXEMES_SET ==
    { << ".", "." >>, << "=", "=" >>, << "!", "=" >>, << ">", "=" >>,
      << "<", "=" >>, << "&", "&" >>, << "|", "|" >> }
SINGLE_CHAR_LEXEMES_SET ==
    { ".", "[", "]", ",", "?", "*", "@", "!", ">", "<", "(", ")", "$" }
JSON_KEYWORD_LEXEMES_SET ==
    { << "t", "r", "u", "e" >>, << "f", "a", "l", "s", "e" >>, << "n", "u", "l", "l" >> }
\* TOKEN_LOOKUP_DICT[lexeme]: the token type of a lexeme
TOKEN_LOOKUP_DICT(lexeme) ==
    CASE lexeme = << "." >> -> "DOT"
      [] lexeme = << "[" >> -> "LBRACKET"
      [] lexeme = << "]" >> -> "RBRACKET"
      [] lexeme = << "," >> -> "COMMA"
      [] lexeme = << "?" >> -> "QMARK"
      [] lexeme = << "*" >> -> "STAR"
      [] lexeme = << "@" >> -> "AT"
      [] lexeme = << "!" >> -> "NOT"
      [] lexeme = << ">" >> -> "GT"
      [] lexeme = << "<" >> -> "LT"
      [] lexeme = << "(" >> -> "LPAREN"
      [] lexeme = << ")" >> -> "RPAREN"
      [] lexeme = << "$" >> -> "DOLLAR"
      [] lexeme = << ".", "." >> -> "DOUBLE_DOT"
      [] lexeme = << "=", "=" >> -> "EQUAL"
      [] lexeme = << "!", "=" >> -> "NOT_EQUAL"
      [] lexeme = << ">", "=" >> -> "GTE"
      [] lexeme = << "<", "=" >> -> "LTE"
      [] lexeme = << "&", "&" >> -> "AND"
      [] lexeme = << "|", "|" >> -> "OR"
      [] lexeme = << "t", "r", "u", "e" >> -> "TRUE"
      [] lexeme = << "f", "a", "l", "s", "e" >> -> "FALSE"
      [] lexeme = << "n", "u", "l", "l" >> -> "NULL"

\* the character of a text at an index from 1, "" past its end
char_at(string, i) == IF i \in 1..Len(string) THEN string[i] ELSE ""
\* the index after the longest run, from index i, of characters of a set
RECURSIVE star_rep(_, _, _)
star_rep(chars, string, i) ==
    IF char_at(string, i) \in chars THEN star_rep(chars, string, i + 1) ELSE i
\* SPACES: zero or more blank characters
SPACES(string, i) == star_rep(BLANK_CHAR, string, i)
\* INT at index i: "0", or an optional "-", a digit 1-9 and digits; the index
\* after the match, i itself when there is none
INT(string, i) ==
    LET first == IF char_at(string, i) = "-" THEN i + 1 ELSE i
    IN IF char_at(string, i) = "0" THEN i + 1
       ELSE IF char_at(string, first) \in DIGITS1
            THEN star_rep(DIGITS, string, first + 1)
            ELSE i
\* FRACTION: "." and one or more digits
FRACTION(string, i) ==
    IF char_at(string, i) = "." /\ char_at(string, i + 1) \in DIGITS
    THEN star_rep(DIGITS, string, i + 1) ELSE i
\* EXPONENT: "e" or "E", an optional sign, one or more digits
EXPONENT(string, i) ==
    LET digits == IF char_at(string, i + 1) \in { "-", "+" } THEN i + 2 ELSE i + 1
    IN IF char_at(string, i) \in { "e", "E" } /\ char_at(string, digits) \in DIGITS
       THEN star_rep(DIGITS, string, digits) ELSE i
\* NUMBER: (INT | "-0") FRACTION? EXPONENT?
NUMBER(string, i) ==
    LET int_part == IF INT(string, i) > i THEN INT(string, i)
                    ELSE IF char_at(string, i) = "-" /\ char_at(string, i + 1) = "0"
                         THEN i + 2 ELSE i
    IN IF int_part = i THEN i
       ELSE EXPONENT(string, FRACTION(string, int_part))
\* MEMBER_NAME_SHORTHAND: NAME_FIRST NAME_CHAR*
MEMBER_NAME_SHORTHAND(string, i) ==
    IF NAME_FIRST(char_at(string, i))
    THEN star_rep({ string[k] : k \in { j \in DOMAIN string : NAME_CHAR(string[j]) } },
                  string, i + 1)
    ELSE i
\* NON_SURROGATE, HIGH_SURROGATE, LOW_SURROGATE: four hexadecimal digits from index i
hex4(string, i, first, second) ==
    /\ char_at(string, i) \in first /\ char_at(string, i + 1) \in second
    /\ char_at(string, i + 2) \in HEXDIGITS /\ char_at(string, i + 3) \in HEXDIGITS
NON_SURROGATE(string, i) ==
    \/ hex4(string, i, DIGITS \cup { "a", "b", "c", "A", "B", "C" }, HEXDIGITS)
    \/ hex4(string, i, { "d", "D" }, { "0", "1", "2", "3", "4", "5", "6", "7" })
    \/ hex4(string, i, { "e", "E", "f", "F" }, HEXDIGITS)
HIGH_SURROGATE(string, i) == hex4(string, i, { "d", "D" }, { "8", "9", "a", "A", "b", "B" })
LOW_SURROGATE(string, i) ==
    hex4(string, i, { "d", "D" }, { "c", "d", "e", "f", "C", "D", "E", "F" })
\* ESCAPABLE_CHAR: b f n r t / \, or "u" and HEX_CHAR
ESCAPABLE_CHAR(string, i) ==
    IF char_at(string, i) \in { "b", "f", "n", "r", "t", "/", BACKSLASH } THEN i + 1
    ELSE IF char_at(string, i) # "u" THEN i
    ELSE IF NON_SURROGATE(string, i + 1) THEN i + 5
    ELSE IF /\ HIGH_SURROGATE(string, i + 1)
            /\ char_at(string, i + 5) = BACKSLASH /\ char_at(string, i + 6) = "u"
            /\ LOW_SURROGATE(string, i + 7)
         THEN i + 11
    ELSE i
\* STRING_LITERAL_SINGLE_QUOTEABLE / STRING_LITERAL_DOUBLE_QUOTEABLE: zero or
\* more of an unescaped character, the other quote, the escaped quote, an escape
RECURSIVE STRING_LITERAL_QUOTEABLE(_, _, _)
STRING_LITERAL_QUOTEABLE(quote, string, i) ==
    LET c == char_at(string, i)
        other == IF quote = SINGLE_QUOTE THEN DOUBLE_QUOTE ELSE SINGLE_QUOTE
    IN IF UNESCAPED_CHAR(c) \/ c = other
       THEN STRING_LITERAL_QUOTEABLE(quote, string, i + 1)
       ELSE IF c = BACKSLASH /\ char_at(string, i + 1) = quote
       THEN STRING_LITERAL_QUOTEABLE(quote, string, i + 2)
       ELSE IF c = BACKSLASH /\ ESCAPABLE_CHAR(string, i + 1) > i + 1
       THEN STRING_LITERAL_QUOTEABLE(quote, string, ESCAPABLE_CHAR(string, i + 1))
       ELSE i
\* re.match(SLICE_SELECTOR, text): (START SPACES)? ":" SPACES END? SPACES
\* (":" (SPACES STEP)?)?.  The named groups and the text matched, and None where
\* there is no match.  A group that did not take part is the empty text: the
\* parser tests a group for truth, which None and "" both fail.
SLICE_SELECTOR(text) ==
    LET start_ == SPACES(text, INT(text, 1))
        colon == IF INT(text, 1) > 1 /\ char_at(text, start_) = ":" THEN start_
                 ELSE IF char_at(text, 1) = ":" THEN 1
                 ELSE 0
        end_from == SPACES(text, colon + 1)
        end_ == SPACES(text, INT(text, end_from))
        step_from == SPACES(text, end_ + 1)
        stop == IF char_at(text, end_) # ":" THEN end_
                ELSE IF INT(text, step_from) > step_from THEN INT(text, step_from)
                ELSE end_ + 1
        group(lo, hi) == SubSeq(text, lo, hi - 1)
    IN IF colon = 0 THEN None
       ELSE [ start |-> IF colon > 1 THEN group(1, INT(text, 1)) ELSE << >>,
              end |-> group(end_from, INT(text, end_from)),
              step |-> IF char_at(text, end_) = ":"
                       THEN group(step_from, INT(text, step_from)) ELSE << >>,
              match |-> group(1, stop) ]

Token(token_type, value) == [ token_type |-> token_type, value |-> value ]
NO_TOKEN == Token("NO_OP", << >>)
SEGMENT_START_TOKEN_TYPES == { "DOT", "LBRACKET", "DOUBLE_DOT" }

Error(error_name, details) == [ error_name |-> error_name, details |-> details ]

ParseResult ==
    [ error |-> None, node |-> None, last_registered_advance_count |-> 0,
      advance_count |-> 0, to_reverse_count |-> 0 ]

register_advancement(self) ==
    [ self EXCEPT !.last_registered_advance_count = 1, !.advance_count = @ + 1 ]

\* the caller reads the returned node as registered_result.node
register(self, registered_result) ==
    [ self EXCEPT !.last_registered_advance_count = registered_result.advance_count,
                  !.advance_count = @ + registered_result.advance_count,
                  !.error = IF registered_result.error # None THEN registered_result.error
                            ELSE @ ]

success(self, node) == [ self EXCEPT !.node = node ]

\* a failure that replaces the error whatever the result has registered
failure_overwriting(self, error) == [ self EXCEPT !.error = error ]

failure(self, error) ==
    IF self.error = None \/ self.last_registered_advance_count = 0
    THEN [ self EXCEPT !.error = error ]
    ELSE self

\* what a production hands back
Produced(res, token_index) == [ res |-> res, token_index |-> token_index, exc |-> "" ]
Thrown(exc, token_index) == [ res |-> ParseResult, token_index |-> token_index, exc |-> exc ]

\* _update_current_token, token_index counted from 1
current_token(token_index) ==
    IF token_index <= Len(tokens) THEN tokens[token_index] ELSE NO_TOKEN

\* the constructors return [exc, node]
NameSelectorNode(token) ==
    IF token.token_type # "STRING" THEN [ exc |-> "TypeError", node |-> None ]
    ELSE [ exc |-> "", node |-> [ node_type |-> "NAME_SELECTOR", token |-> token ] ]

SliceSelectorNode(token, start, end, step) ==
    LET bad(bound) == /\ bound # None
                      /\ bound.hi # 0 \/ bound.lo # 0
                      /\ IntLess(bound, INT_MIN) \/ IntLess(INT_MAX, bound)
    IN IF bad(start) \/ bad(end) \/ bad(step)
       THEN [ exc |-> "IndexError", node |-> None ]
       ELSE [ exc |-> "",
              node |-> [ node_type |-> "SLICE_SELECTOR",
                         start |-> start, end |-> end, step |-> step ] ]

IndexSelectorNode(token) ==
    LET check(index) ==
            IF /\ index.hi # 0 \/ index.lo # 0
               /\ IntLess(index, INT_MIN) \/ IntLess(INT_MAX, index)
            THEN [ exc |-> "IndexError", node |-> None ]
            ELSE [ exc |-> "", node |-> [ node_type |-> "INDEX_SELECTOR", index |-> index ] ]
    IN IF token.token_type # "INT" THEN [ exc |-> "TypeError", node |-> None ]
       ELSE Call(int(token.value), check)

name_selector(token_index) ==
    LET res == ParseResult
        made == NameSelectorNode(current_token(token_index))
    IN IF current_token(token_index).token_type # "STRING"
       THEN Produced(failure(res, Error("InvalidSyntaxError", "Expected string literal")),
                     token_index)
       ELSE IF made.exc # "" THEN Thrown(made.exc, token_index)
       ELSE Produced(success(register_advancement(res), made.node), token_index + 1)

wildcard_selector(token_index) ==
    LET res == ParseResult
    IN IF current_token(token_index).token_type # "STAR"
       THEN Produced(failure(res, Error("InvalidSyntaxError", "Expected '*'")), token_index)
       ELSE Produced(success(register_advancement(res), [ node_type |-> "WILDCARD_SELECTOR" ]),
                     token_index + 1)

slice_selector(token_index) ==
    LET res == ParseResult
        bound(group) == IF group # << >> THEN int(group) ELSE None
        construct(match) ==
            Call(SliceSelectorNode(current_token(token_index),
                                   bound(match.start), bound(match.end), bound(match.step)),
                 LAMBDA made :
                     IF made.exc = "IndexError"
                     THEN Produced(failure(res, Error("ValidationError", "IndexError")),
                                   token_index)
                     ELSE Produced(success(register_advancement(res), made.node),
                                   token_index + 1))
    IN Call(SLICE_SELECTOR(current_token(token_index).value),
            LAMBDA match :
                IF match = None
                THEN Produced(failure(res, Error("InvalidSyntaxError",
                                                 "Expected slice-selector")),
                              token_index)
                ELSE construct(match))

index_selector(token_index) ==
    LET res == ParseResult
        construct(made) ==
            IF made.exc # "" THEN Thrown(made.exc, token_index)
            ELSE Produced(success(register_advancement(res), made.node), token_index + 1)
    IN IF current_token(token_index).token_type # "INT"
       THEN Produced(failure(res, Error("InvalidSyntaxError", "Expected int literal")),
                     token_index)
       ELSE Call(IndexSelectorNode(current_token(token_index)), construct)

\* Filter selectors and function expressions.  The enumerated filters hold
\* no query ("@", "$") and no literal other than an integer: the branches
\* for FILTER_QUERY_FIRST_SET, TEST_EXPR_FIRST_SET, SINGULAR_QUERY_FIRST_SET
\* and for string and keyword literals are never entered.  A position is
\* the span of token indices [start, end).
COMPARISON_OPERATORS_SET == { "EQUAL", "NOT_EQUAL", "GTE", "LTE", "GT", "LT" }
COMPARABLE_LITERAL_TYPES_SET == { "INT", "FLOAT", "STRING", "TRUE", "FALSE", "NULL" }
NUMBER_TYPES_SET == { "INT", "FLOAT" }
FILTER_QUERY_FIRST_SET == { "AT", "DOLLAR" }

Position(start, end) == [ start |-> start, end |-> end ]
ValidationError(position, details) ==
    [ error_name |-> "ValidationError", details |-> details, position |-> position ]

try_register(self, registered_result) ==
    IF registered_result.error # None
    THEN [ self EXCEPT !.to_reverse_count = registered_result.advance_count ]
    ELSE register(self, registered_result)

backtrack(token_index, amount) == token_index - amount

is_start_of_function_expr(token_index) ==
    /\ current_token(token_index).token_type = "IDENTIFIER"
    /\ current_token(token_index + 1).token_type = "LPAREN"

\* get_registered_function: _FunctionRegistry.instance().lookup(func_name)
get_registered_function(func_name) ==
    LET RECURSIVE key(_)
        key(text) == IF text = << >> THEN "" ELSE Head(text) \o key(Tail(text))
    IN Call(key(func_name),
            LAMBDA name : IF name \in DOMAIN functions THEN functions[name] ELSE None)

\* the singular segments: child segments of one name or index selector
is_singular(segments_nodes) ==
    \A k \in 1..Len(segments_nodes) :
        /\ segments_nodes[k].node_type # "DESCENDANT_SEGMENT"
        /\ Len(segments_nodes[k].selectors) <= 1
        /\ \A j \in 1..Len(segments_nodes[k].selectors) :
               segments_nodes[k].selectors[j].node_type \in { "NAME_SELECTOR", "INDEX_SELECTOR" }
\* is_query and is_singular_query of RelativeQueryNode and JsonPathQueryNode
is_query(node) == node.node_type \in { "RELATIVE_QUERY", "JSONPATH_QUERY" }
is_singular_query(node) == is_query(node) /\ is_singular(node.segments)
\* isinstance(node, LiteralNode)
LiteralNode(node) ==
    node.node_type \in { "STRING", "INT", "FLOAT", "BOOLEAN_LITERAL", "NULL_LITERAL" }

\* [exc, arg_type]: the type of an argument node against a parameter
_param_type_for_node(arg_node, param) ==
    LET node_type == arg_node.node_type
        typed(arg_type) == [ exc |-> "", arg_type |-> arg_type ]
    IN CASE LiteralNode(arg_node) -> typed("ValueType")
         [] node_type \in { "LOGICAL_EXPR", "COMPARISON_EXPR" } -> typed("LogicalType")
         [] node_type = "FUNCTION_CALL" ->
                IF /\ arg_node.func_node.return_param.param_type = "NodesType"
                   /\ param.param_type = "LogicalType"
                THEN typed("LogicalType")
                ELSE typed(arg_node.func_node.return_param.param_type)
         [] is_singular_query(arg_node) ->
                IF param.param_type = "LogicalType" THEN typed("LogicalType")
                ELSE typed("ValueType")
         [] is_query(arg_node) /\ ~is_singular_query(arg_node) ->
                IF param.param_type = "LogicalType" THEN typed("LogicalType")
                ELSE typed("NodesType")
         [] OTHER -> [ exc |-> "TypeError", arg_type |-> None,
                       details |-> "Expected logical_expr, filter_query, function_expr, or literal" ]

\* [exc, details, value]: validate_type returns a boolean or raises TypeError.
\* The exact match also compares the Python types; where the declared types
\* agree and the Python types differ, the tests below return True as well.
\* a validation that accepts an argument of any type for any parameter
validate_any_type(func_arg, param) == [ exc |-> "", details |-> "", value |-> TRUE ]

validate_type(func_arg, param) ==
    LET arg_node == func_arg.arg_node
        returns(value) == [ exc |-> "", details |-> "", value |-> value ]
        raises(details) == [ exc |-> "TypeError", details |-> details, value |-> FALSE ]
        checked(inferred) ==
            LET _arg_type == inferred.arg_type
            IN IF inferred.exc # "" THEN raises(inferred.details)
               ELSE IF _arg_type = param.param_type THEN returns(TRUE)
               ELSE IF arg_node.node_type = "FUNCTION_CALL"
               THEN IF arg_node.func_node.return_param.param_type = _arg_type
                    THEN returns(TRUE)
                    ELSE IF /\ arg_node.func_node.return_param.param_type = "NodesType"
                            /\ _arg_type = "LogicalType"
                    THEN returns(TRUE)
                    ELSE returns(FALSE)
               ELSE IF param.param_type = "NodesType" /\ is_query(arg_node)
               THEN returns(TRUE)
               ELSE IF param.param_type = "ValueType"
               THEN IF LiteralNode(arg_node) \/ is_singular_query(arg_node)
                    THEN returns(TRUE)
                    ELSE raises("Expected singular query for ValueType parameter")
               ELSE raises("Expected " \o param.param_type \o " but got " \o _arg_type)
    IN Call(_param_type_for_node(arg_node, param), checked)

\* str of a function's name and of a FunctionParamType, character by character
func_name_str(func_name) ==
    CASE func_name = "length" -> << "l", "e", "n", "g", "t", "h" >>
      [] func_name = "count" -> << "c", "o", "u", "n", "t" >>
      [] func_name = "match" -> << "m", "a", "t", "c", "h" >>
      [] func_name = "search" -> << "s", "e", "a", "r", "c", "h" >>
      [] func_name = "value" -> << "v", "a", "l", "u", "e" >>
      [] func_name = "blt" -> << "b", "l", "t" >>
      [] func_name = "nop" -> << "n", "o", "p" >>
FunctionParamType_str(param_type) ==
    CASE param_type = "ValueType" -> << "V", "a", "l", "u", "e", "T", "y", "p", "e" >>
      [] param_type = "LogicalType" -> << "L", "o", "g", "i", "c", "a", "l", "T", "y", "p", "e" >>
      [] param_type = "NodesType" -> << "N", "o", "d", "e", "s", "T", "y", "p", "e" >>

\* ', '.join(texts)
RECURSIVE join(_)
join(texts) ==
    IF texts = << >> THEN << >>
    ELSE IF Len(texts) = 1 THEN texts[1]
    ELSE texts[1] \o << ",", " " >> \o join(Tail(texts))

\* str(node) of the nodes a function argument is made of: literals, calls,
\* and queries whose selectors are names and wildcards
RECURSIVE __str__(_)
__str__(node) ==
    LET node_type == node.node_type
        each(nodes, text(_)) == [ k \in 1..Len(nodes) |-> text(nodes[k]) ]
        selectors(n) == << "b", "s", "[" >> \o join(each(n.selectors, __str__))
                        \o << "]", "/", "b", "s" >>
        opening == << "s", "e", "g", "m", "e", "n", "t", "s", "<" >>
    IN CASE node_type = "FUNCTION_ARG" -> __str__(node.arg_node)
         [] node_type = "STRING" ->
                unescape_string_content(SubSeq(node.token.value, 2, Len(node.token.value) - 1))
         [] node_type \in { "INT", "FLOAT" } -> node.token.value
         [] node_type = "BOOLEAN_LITERAL" ->
                IF node.token.token_type = "TRUE" THEN << "t", "r", "u", "e" >>
                ELSE << "f", "a", "l", "s", "e" >>
         [] node_type = "NULL_LITERAL" -> << "n", "u", "l", "l" >>
         [] node_type = "FUNCTION_CALL" ->
                func_name_str(node.func_node.func_name) \o << "(" >>
                \o join(each(node.args, __str__)) \o << ")", "-", ">" >>
                \o FunctionParamType_str(node.func_node.return_param.param_type)
         [] node_type = "NAME_SELECTOR" ->
                << "n", "s", ":" >>
                \o unescape_string_content(SubSeq(node.token.value, 2,
                                                  Len(node.token.value) - 1))
         [] node_type = "WILDCARD_SELECTOR" -> << "*" >>
         [] node_type = "CHILD_SEGMENT" ->
                << "C", "S", "{" >> \o selectors(node) \o << "}", "/", "C", "S" >>
         [] node_type = "DESCENDANT_SEGMENT" ->
                << "D", "S", "{" >> \o selectors(node) \o << "}", "/", "D", "S" >>
         [] node_type = "JSONPATH_QUERY" ->
                IF Len(node.segments) = 0 THEN << "$" >>
                ELSE << "$", "{" >> \o join(each(node.segments, __str__))
                     \o << "}", "/", "$" >>
         [] node_type = "RELATIVE_QUERY" ->
                IF Len(node.segments) = 0 THEN << "@" >>
                ELSE << "@", " " >>
                     \o join(each(node.segments, LAMBDA n : opening \o __str__(n) \o << ">" >>))

\* isinstance(func, RegexFuncBase): the match and search functions of the library
RegexFuncBase(func) == \E name \in { "match", "search" } : func = KnownFunctions[name]

\* RegexFuncBase.validate_args: the message of the re.error raised, "" for none
validate_args(args) == re_compile(__str__(args[2]))

\* [exc, node, details]: FunctionCallNode.__init__ with _validate_args
FunctionCallNode(node, args, position) ==
    IF Len(node.param_list) - Len(args) # 0
    THEN [ exc |-> "ValueError", node |-> None, details |-> "" ]
    ELSE IF RegexFuncBase(node) /\ validate_args(args) # ""
    THEN [ exc |-> "re.error", node |-> None, details |-> validate_args(args) ]
    ELSE [ exc |-> "", details |-> "",
           node |-> [ node_type |-> "FUNCTION_CALL", func_node |-> node, args |-> args,
                      position |-> position ] ]

FunctionArgument(node, position) ==
    [ node_type |-> "FUNCTION_ARG", arg_node |-> node, position |-> position ]

\* StringLiteralNode, BooleanLiteralNode and NullLiteralNode
string_literal(token_index) ==
    LET token == current_token(token_index)
    IN IF token.token_type # "STRING"
       THEN Produced(failure(ParseResult, Error("InvalidSyntaxError", "Expected string literal")),
                     token_index)
       ELSE Produced(success(register_advancement(ParseResult),
                             [ node_type |-> "STRING", token |-> token ]),
                     token_index + 1)

json_keyword(token_index) ==
    LET token == current_token(token_index)
    IN IF token.token_type \notin { "TRUE", "FALSE", "NULL" }
       THEN Produced(failure(ParseResult,
                             Error("InvalidSyntaxError",
                                   "Expected keyword 'true', 'false', or 'null'")),
                     token_index)
       ELSE Produced(success(register_advancement(ParseResult),
                             [ node_type |-> IF token.token_type = "NULL" THEN "NULL_LITERAL"
                                             ELSE "BOOLEAN_LITERAL",
                               token |-> token ]),
                     token_index + 1)

\* the production of a literal token
literal_production(token_type) ==
    IF token_type = "STRING" THEN "string_literal"
    ELSE IF token_type \in NUMBER_TYPES_SET THEN "number_literal"
    ELSE "json_keyword"

number_literal(token_index) ==
    LET token == current_token(token_index)
    IN IF token.token_type \notin NUMBER_TYPES_SET THEN Thrown("TypeError", token_index)
       ELSE Produced(success(register_advancement(ParseResult),
                             [ node_type |-> token.token_type, token |-> token ]),
                     token_index + 1)

\* self.<name>(): the productions of a filter call one another by name
RECURSIVE production(_, _)

function_argument(token_index) ==
    LET res == ParseResult
        saved_token == token_index
        called(sub) ==
            LET registered == register(res, sub.res)
            IN IF sub.exc # "" THEN sub
               ELSE IF registered.error # None THEN Produced(registered, sub.token_index)
               ELSE IF sub.res.node = None
               THEN Produced(failure(registered, Error("InvalidSyntaxError",
                                                       "Expected function_expr")),
                             sub.token_index)
               ELSE Produced(success(registered,
                                     FunctionArgument(sub.res.node,
                                                      Position(saved_token, sub.token_index))),
                             sub.token_index)
        \* literal or error, from where the parser stands after the attempt
        literal(tried, at) ==
            IF current_token(at).token_type \in COMPARABLE_LITERAL_TYPES_SET
            THEN Call(production(literal_production(current_token(at).token_type), at),
                      LAMBDA sub :
                          LET registered == register(tried, sub.res)
                          IN IF sub.exc # "" THEN sub
                             ELSE IF registered.error # None
                             THEN Produced(registered, sub.token_index)
                             ELSE IF sub.res.node = None
                             THEN Produced(failure(registered,
                                                   Error("InvalidSyntaxError",
                                                         "Couldn't parse literal token")),
                                           sub.token_index)
                             ELSE Produced(success(registered,
                                               FunctionArgument(sub.res.node,
                                                   Position(at, sub.token_index))),
                                           sub.token_index))
            ELSE Produced(failure(tried, Error("InvalidSyntaxError",
                                               "Expected to parse function argument")),
                          at)
        attempted(sub) ==
            LET tried == try_register(res, sub.res)
                node == IF sub.res.error # None THEN None ELSE sub.res.node
            IN IF sub.exc # "" THEN sub
               ELSE IF tried.error # None \/ node = None
               THEN literal(tried, backtrack(sub.token_index, tried.to_reverse_count))
               ELSE Produced(success(tried,
                                     FunctionArgument(node,
                                                      Position(saved_token, sub.token_index))),
                             sub.token_index)
        queried(sub) ==
            LET registered == register(res, sub.res)
            IN IF sub.exc # "" THEN sub
               ELSE IF registered.error # None THEN Produced(registered, sub.token_index)
               ELSE IF sub.res.node = None
               THEN Produced(failure(registered, Error("InvalidSyntaxError",
                                                       "Expected filter_quer")),
                             sub.token_index)
               ELSE Produced(success(registered,
                                     FunctionArgument(sub.res.node,
                                                      Position(saved_token, sub.token_index))),
                             sub.token_index)
    IN IF current_token(token_index).token_type \in FILTER_QUERY_FIRST_SET
       THEN Call(production("filter_query", token_index), queried)
       ELSE IF is_start_of_function_expr(token_index)
       THEN Call(production("function_expr", token_index), called)
       ELSE Call(production("logical_expr", token_index), attempted)

\* the enumerated function names are well-formed: FUNCTION_NAME_RE matches
function_expr(token_index) ==
    LET res == ParseResult
        function_name == current_token(token_index)
        function == get_registered_function(function_name.value)
        func_params == function.param_list
        named == register_advancement(res)
        opened == register_advancement(named)
        \* the call node, once ")" at index at - 1 is consumed; a re.error
        \* becomes a ValidationError that spans the arguments
        construct(closed, arg_list, at) ==
            Call(FunctionCallNode(function, arg_list, Position(token_index, at)),
                 LAMBDA made :
                     IF made.exc = "re.error"
                     THEN Produced(failure(closed,
                                           ValidationError(Position(token_index + 2, at - 1),
                                                           made.details)),
                                   at)
                     ELSE IF made.exc # "" THEN Thrown(made.exc, at)
                     ELSE Produced(success(closed, made.node), at))
        typed(registered, func_arg, param, at, follow(_)) ==
            Call(validate_type(func_arg, param),
                 LAMBDA valid :
                     IF valid.exc # ""
                     THEN Produced(failure(registered,
                                           ValidationError(func_arg.position, valid.details)),
                                   at)
                     ELSE follow(registered))
        RECURSIVE more(_, _, _, _)
        \* the optional arguments and the closing ")"; arg_index counts from 0
        more(cur, at, arg_index, arg_list) ==
            IF current_token(at).token_type = "COMMA"
            THEN Call(production("function_argument", at + 1),
                      LAMBDA sub :
                          LET registered == register(register_advancement(cur), sub.res)
                              func_arg == sub.res.node
                          IN IF sub.exc # "" THEN sub
                             ELSE IF registered.error # None
                             THEN Produced(registered, sub.token_index)
                             ELSE IF func_arg = None
                             THEN Produced(failure(registered,
                                                   Error("InvalidSyntaxError",
                                                         "Expected function argument")),
                                           sub.token_index)
                             ELSE IF arg_index + 1 >= Len(func_params)
                             THEN Produced(failure(registered,
                                               ValidationError(func_arg.position,
                                                   "Unexpected function argument")),
                                           sub.token_index)
                             ELSE typed(registered, func_arg, func_params[arg_index + 2],
                                        sub.token_index,
                                        LAMBDA ok : more(ok, sub.token_index, arg_index + 1,
                                                         Append(arg_list, func_arg))))
            ELSE IF arg_index + 1 < Len(func_params)
            THEN Produced(failure(cur, ValidationError(Position(at, at + 1),
                                                       "Expected more arguments for function")),
                          at)
            ELSE IF current_token(at).token_type # "RPAREN"
            THEN Produced(failure(cur, Error("InvalidSyntaxError", "Expected ')'")), at)
            ELSE construct(register_advancement(cur), arg_list, at + 1)
        begun(sub) ==
            LET registered == register(opened, sub.res)
                func_arg == sub.res.node
            IN IF sub.exc # "" THEN sub
               ELSE IF registered.error # None THEN Produced(registered, sub.token_index)
               ELSE IF func_arg = None
               THEN Produced(failure(registered, Error("InvalidSyntaxError",
                                                       "Expected function argument")),
                             sub.token_index)
               ELSE IF Len(func_params) = 0
               THEN Produced(failure(registered,
                                     Error("InvalidSyntaxError",
                                           "Unexpected function argument for no-param function")),
                             sub.token_index)
               ELSE typed(registered, func_arg, func_params[1], sub.token_index,
                          LAMBDA ok : more(ok, sub.token_index, 0, << func_arg >>))
    IN IF function_name.token_type # "IDENTIFIER"
       THEN Produced(failure(res, Error("InvalidSyntaxError", "Expected function_name")),
                     token_index)
       ELSE IF function = None
       THEN Produced(failure(res, Error("IllegalFunction", "Function name is not registered")),
                     token_index)
       ELSE IF current_token(token_index + 1).token_type # "LPAREN"
       THEN Produced(failure(named, Error("InvalidSyntaxError", "Expected '('")),
                     token_index + 1)
       ELSE IF current_token(token_index + 2).token_type = "RPAREN"
       THEN construct(register_advancement(opened), << >>, token_index + 3)
       ELSE Call(production("function_argument", token_index + 2), begun)

comparable(token_index) ==
    LET res == ParseResult
        called(sub) ==
            LET registered == register(res, sub.res)
                node == sub.res.node
            IN IF sub.exc # "" THEN sub
               ELSE IF registered.error # None THEN Produced(registered, sub.token_index)
               ELSE IF node = None
               THEN Produced(failure(registered, Error("InvalidSyntaxError",
                                                       "Expected function_expr")),
                             sub.token_index)
               ELSE IF node.func_node.return_param.param_type # "ValueType"
               THEN Produced(failure(registered,
                                     ValidationError(node.position,
                                         "Function not well-typed. Expected ValueType")),
                             sub.token_index)
               ELSE Produced(success(registered, node), sub.token_index)
        literal(sub) ==
            LET registered == register(res, sub.res)
            IN IF sub.exc # "" THEN sub
               ELSE IF registered.error # None THEN Produced(registered, sub.token_index)
               ELSE IF sub.res.node = None
               THEN Produced(failure(registered, Error("InvalidSyntaxError",
                                                       "Expected literal")),
                             sub.token_index)
               ELSE Produced(success(registered, sub.res.node), sub.token_index)
    IN IF is_start_of_function_expr(token_index)
       THEN Call(production("function_expr", token_index), called)
       ELSE IF current_token(token_index).token_type \in COMPARABLE_LITERAL_TYPES_SET
       THEN Call(production(literal_production(current_token(token_index).token_type),
                            token_index),
                 literal)
       ELSE Produced(failure(res, Error("InvalidSyntaxError",
                                        "Expected singular_query, function_expr, or literal")),
                     token_index)

comparison_expr(token_index) ==
    LET res == ParseResult
        right(left_res, left_node, op_at) ==
            Call(production("comparable", op_at + 1),
                 LAMBDA sub :
                     LET registered == register(register_advancement(left_res), sub.res)
                     IN IF sub.exc # "" THEN sub
                        ELSE IF registered.error # None
                        THEN Produced(registered, sub.token_index)
                        ELSE IF sub.res.node = None
                        THEN Produced(failure(registered,
                                              Error("InvalidSyntaxError",
                                                    "couldn't parse right comparable")),
                                      sub.token_index)
                        ELSE Produced(success(registered,
                                          [ node_type |-> "COMPARISON_EXPR",
                                            left_node |-> left_node,
                                            op_token |-> current_token(op_at),
                                            right_node |-> sub.res.node ]),
                                      sub.token_index))
        left(sub) ==
            LET registered == register(res, sub.res)
            IN IF sub.exc # "" THEN sub
               ELSE IF registered.error # None THEN Produced(registered, sub.token_index)
               ELSE IF sub.res.node = None
               THEN Produced(failure(registered, Error("InvalidSyntaxError",
                                                       "couldn't parse left comparable")),
                             sub.token_index)
               ELSE IF current_token(sub.token_index).token_type \notin COMPARISON_OPERATORS_SET
               THEN Produced(failure(registered, Error("InvalidSyntaxError",
                                                       "Expected comparison operator")),
                             sub.token_index)
               ELSE right(registered, sub.res.node, sub.token_index)
    IN Call(production("comparable", token_index), left)

\* test_expr consumes "!" with advance() alone: the token is not registered
test_expr(token_index) ==
    LET res == ParseResult
        not_flag == current_token(token_index).token_type = "NOT"
        at == IF not_flag THEN token_index + 1 ELSE token_index
        called(sub) ==
            LET registered == register(res, sub.res)
                node == sub.res.node
            IN IF sub.exc # "" THEN sub
               ELSE IF /\ registered.error = None
                       /\ node # None
                       /\ node.func_node.return_param.param_type
                            \notin { "LogicalType", "NodesType" }
               THEN Produced(failure(registered,
                                     ValidationError(node.position,
                                         "Function not well-typed for test_expr")),
                             sub.token_index)
               ELSE IF registered.error # None THEN Produced(registered, sub.token_index)
               ELSE IF node # None
               THEN Produced(success(registered,
                                     IF not_flag
                                     THEN [ node_type |-> "LOGICAL_NOT", node |-> node ]
                                     ELSE node),
                             sub.token_index)
               ELSE Produced(failure(registered,
                                     Error("InvalidSyntaxError",
                                           "Expected filter_query or function_expr")),
                             sub.token_index)
    IN IF is_start_of_function_expr(at)
       THEN Call(production("function_expr", at), called)
       ELSE Produced(failure(res, Error("InvalidSyntaxError",
                                        "Expected filter_query or function_expr")),
                     at)

paren_expr(token_index) ==
    LET not_flag == current_token(token_index).token_type = "NOT"
        res == IF not_flag THEN register_advancement(ParseResult) ELSE ParseResult
        at == IF not_flag THEN token_index + 1 ELSE token_index
        inner(sub) ==
            LET registered == register(register_advancement(res), sub.res)
                logical_expr_node == sub.res.node
            IN IF sub.exc # "" THEN sub
               ELSE IF registered.error # None THEN Produced(registered, sub.token_index)
               ELSE IF logical_expr_node = None
               THEN Produced(failure(registered, Error("InvalidSyntaxError",
                                                       "logical_expr_node is None")),
                             sub.token_index)
               ELSE IF current_token(sub.token_index).token_type # "RPAREN"
               THEN Produced(failure(registered, Error("InvalidSyntaxError", "Expected ')'")),
                             sub.token_index)
               ELSE Produced(success(register_advancement(registered),
                                     IF not_flag
                                     THEN [ node_type |-> "LOGICAL_NOT",
                                            node |-> logical_expr_node ]
                                     ELSE logical_expr_node),
                             sub.token_index + 1)
    IN IF current_token(at).token_type # "LPAREN"
       THEN Produced(failure(res, Error("InvalidSyntaxError", "Expected '('")), at)
       ELSE Call(production("logical_expr", at + 1), inner)

basic_expr(token_index) ==
    LET res == ParseResult
        token_type == current_token(token_index).token_type
        registered(sub) ==
            LET got == register(res, sub.res)
            IN IF sub.exc # "" THEN sub
               ELSE IF got.error # None THEN Produced(got, sub.token_index)
               ELSE Produced(success(got, sub.res.node), sub.token_index)
        \* test_expr, from where the parser stands after the attempt
        test(tried, at) ==
            IF is_start_of_function_expr(at)
            THEN Call(production("test_expr", at),
                      LAMBDA sub :
                          LET got == register(tried, sub.res)
                          IN IF sub.exc # "" THEN sub
                             ELSE IF got.error # None THEN Produced(got, sub.token_index)
                             ELSE IF sub.res.node # None
                             THEN Produced(success(got, sub.res.node), sub.token_index)
                             ELSE Produced(failure(got,
                                               Error("InvalidSyntaxError",
                                                     "Expected paren_expr, comparison_expr or test_expr")),
                                           sub.token_index))
            ELSE Produced(failure(tried,
                                  Error("InvalidSyntaxError",
                                        "Expected paren_expr, comparison_expr or test_expr")),
                          at)
        attempted(sub) ==
            LET tried == try_register(res, sub.res)
                node == IF sub.res.error # None THEN None ELSE sub.res.node
            IN IF sub.exc # "" THEN sub
               ELSE IF tried.error = None /\ node # None
               THEN Produced(success(tried, node), sub.token_index)
               ELSE test([ tried EXCEPT !.error = None ],
                         backtrack(sub.token_index, tried.to_reverse_count))
    IN IF token_type = "NOT"
       THEN IF current_token(token_index + 1).token_type = "LPAREN"
            THEN Call(production("paren_expr", token_index), registered)
            ELSE Call(production("test_expr", token_index), registered)
       ELSE IF token_type = "LPAREN" THEN Call(production("paren_expr", token_index), registered)
       ELSE Call(production("comparison_expr", token_index), attempted)

logical_and_expr(token_index) ==
    LET RECURSIVE more(_, _, _)
        more(res, at, basic_expr_list) ==
            IF current_token(at).token_type = "AND"
            THEN Call(production("basic_expr", at + 1),
                      LAMBDA sub :
                          LET registered == register(register_advancement(res), sub.res)
                          IN IF sub.exc # "" THEN sub
                             ELSE IF registered.error # None
                             THEN Produced(registered, sub.token_index)
                             ELSE IF sub.res.node = None
                             THEN Produced(failure(registered,
                                                   Error("InvalidSyntaxError",
                                                         "Expected basic_expr after '&&'")),
                                           sub.token_index)
                             ELSE more(registered, sub.token_index,
                                       Append(basic_expr_list, sub.res.node)))
            ELSE Produced(success(res,
                                  IF Len(basic_expr_list) = 1 THEN basic_expr_list[1]
                                  ELSE [ node_type |-> "LOGICAL_AND_EXPR",
                                         nodes |-> basic_expr_list ]),
                          at)
        first(sub) ==
            LET registered == register(ParseResult, sub.res)
            IN IF sub.exc # "" THEN sub
               ELSE IF registered.error # None THEN Produced(registered, sub.token_index)
               ELSE IF sub.res.node = None
               THEN Produced(failure(registered, Error("InvalidSyntaxError",
                                                       "Expected basic_expr")),
                             sub.token_index)
               ELSE more(registered, sub.token_index, << sub.res.node >>)
    IN Call(production("basic_expr", token_index), first)

logical_or_expr(token_index) ==
    LET RECURSIVE more(_, _, _)
        more(res, at, and_expr_list) ==
            IF current_token(at).token_type = "OR"
            THEN Call(production("logical_and_expr", at + 1),
                      LAMBDA sub :
                          LET registered == register(register_advancement(res), sub.res)
                          IN IF sub.exc # "" THEN sub
                             ELSE IF registered.error # None
                             THEN Produced(registered, sub.token_index)
                             ELSE IF sub.res.node = None
                             THEN Produced(failure(registered,
                                                   Error("InvalidSyntaxError",
                                                         "Expected logical_and_expr after '||'")),
                                           sub.token_index)
                             ELSE more(registered, sub.token_index,
                                       Append(and_expr_list, sub.res.node)))
            ELSE Produced(success(res,
                                  IF Len(and_expr_list) = 1 THEN and_expr_list[1]
                                  ELSE [ node_type |-> "LOGICAL_OR_EXPR",
                                         nodes |-> and_expr_list ]),
                          at)
        first(sub) ==
            LET registered == register(ParseResult, sub.res)
            IN IF sub.exc # "" THEN sub
               ELSE IF registered.error # None THEN Produced(registered, sub.token_index)
               ELSE IF sub.res.node = None
               THEN Produced(failure(registered, Error("InvalidSyntaxError",
                                                       "Expected logical_and_expr")),
                             sub.token_index)
               ELSE more(registered, sub.token_index, << sub.res.node >>)
    IN Call(production("logical_and_expr", token_index), first)

logical_expr(token_index) ==
    LET registered(sub) ==
            LET res == register(ParseResult, sub.res)
            IN IF sub.exc # "" THEN sub
               ELSE IF res.error # None THEN Produced(res, sub.token_index)
               ELSE IF sub.res.node = None
               THEN Produced(failure(res, Error("InvalidSyntaxError",
                                                "Expected logical_or_expr")),
                             sub.token_index)
               ELSE Produced(success(res, sub.res.node), sub.token_index)
    IN Call(production("logical_or_expr", token_index), registered)

filter_selector(token_index) ==
    LET registered(sub) ==
            LET res == register(register_advancement(ParseResult), sub.res)
            IN IF sub.exc # "" THEN sub
               ELSE IF res.error # None THEN Produced(res, sub.token_index)
               ELSE IF sub.res.node = None
               THEN Produced(failure(res, Error("InvalidSyntaxError",
                                                "Expected logical_expr")),
                             sub.token_index)
               ELSE Produced(success(res, [ node_type |-> "FILTER_SELECTOR",
                                            node |-> sub.res.node ]),
                             sub.token_index)
    IN IF current_token(token_index).token_type # "QMARK"
       THEN Produced(failure(ParseResult, Error("InvalidSyntaxError", "Expected '?'")),
                     token_index)
       ELSE Call(production("logical_expr", token_index + 1), registered)

selector(token_index) ==
    LET token == current_token(token_index)
        registered(sub) ==
            LET res == register(ParseResult, sub.res)
            IN IF sub.exc # "" THEN sub
               ELSE IF res.error # None THEN Produced(res, sub.token_index)
               ELSE IF sub.res.node # None
               THEN Produced(success(res, sub.res.node), sub.token_index)
               ELSE Produced(failure(res, Error("InvalidSyntaxError", "Expected selector")),
                             sub.token_index)
    IN CASE token.token_type = "STRING" -> Call(name_selector(token_index), registered)
         [] token.token_type = "STAR" -> Call(wildcard_selector(token_index), registered)
         [] token.token_type = "SLICE" -> Call(slice_selector(token_index), registered)
         [] token.token_type = "INT" -> Call(index_selector(token_index), registered)
         [] token.token_type = "QMARK" -> Call(production("filter_selector", token_index), registered)
         [] OTHER -> Produced(failure(ParseResult,
                                      Error("InvalidSyntaxError", "Expected selector")),
                              token_index)

bracketed_selection(token_index) ==
    LET RECURSIVE more(_, _, _)
        \* the loop over the comma-delimited selectors and the closing "]"
        more(res, at, selector_list) ==
            IF current_token(at).token_type = "COMMA"
            THEN Call(selector(at + 1),
                      LAMBDA sub :
                          IF sub.exc # "" THEN sub
                          ELSE Call(register(register_advancement(res), sub.res),
                                    LAMBDA registered :
                                        IF registered.error # None
                                        THEN Produced(registered, sub.token_index)
                                        ELSE more(registered, sub.token_index,
                                                  IF sub.res.node # None
                                                  THEN Append(selector_list, sub.res.node)
                                                  ELSE selector_list)))
            ELSE IF current_token(at).token_type # "RBRACKET"
            THEN Produced(failure(res, Error("InvalidSyntaxError", "Expected ',' or ']'")), at)
            ELSE Produced(success(register_advancement(res),
                                  [ node_type |-> "BRACKETED_SELECTION",
                                    selectors |-> selector_list ]),
                          at + 1)
        begun(first) ==
            LET res == register(register_advancement(ParseResult), first.res)
                first_selector == first.res.node
            IN IF first.exc # "" THEN first
               ELSE IF /\ first_selector = None
                       /\ current_token(first.token_index).token_type = "RBRACKET"
               THEN Produced(failure(res, Error("InvalidSyntaxError",
                                 "Expected at least one selector, got empty selector list")),
                             first.token_index)
               ELSE IF first_selector = None
               THEN Produced(failure(res, Error("InvalidSyntaxError",
                                                "Expected at least one selector")),
                             first.token_index)
               ELSE more(res, first.token_index, << first_selector >>)
    IN IF current_token(token_index).token_type # "LBRACKET"
       THEN Produced(failure(ParseResult, Error("InvalidSyntaxError", "Expected '['")),
                     token_index)
       ELSE Call(selector(token_index + 1), begun)

member_name_shorthand(token_index) ==
    IF current_token(token_index).token_type \notin { "IDENTIFIER", "TRUE", "FALSE", "NULL" }
    THEN Produced(failure(ParseResult, Error("InvalidSyntaxError", "Expected identifier")),
                  token_index)
    ELSE Produced(success(register_advancement(ParseResult),
                          [ node_type |-> "MEMBER_NAME_SHORTHAND",
                            token |-> current_token(token_index) ]),
                  token_index + 1)

\* .* becomes [*], and .foo becomes ['foo']: the selectors of the segment
_convert_to_bracketed_selection(node) ==
    IF node.node_type = "WILDCARD_SELECTOR" THEN << node >>
    ELSE << NameSelectorNode([ node.token EXCEPT
                                 !.token_type = "STRING",
                                 !.value = << SINGLE_QUOTE >> \o @ \o << SINGLE_QUOTE >> ]).node >>

child_segment(token_index) ==
    LET registered(sub) ==
            LET res == register(ParseResult, sub.res)
            IN IF sub.exc # "" THEN sub
               ELSE IF res.error # None THEN Produced(res, sub.token_index)
               ELSE Produced(success(res, [ node_type |-> "CHILD_SEGMENT",
                                            selectors |-> sub.res.node.selectors ]),
                             sub.token_index)
        shorthand(sub) ==
            LET res == register(register_advancement(ParseResult), sub.res)
            IN IF res.error # None THEN Produced(res, sub.token_index)
               ELSE Produced(success(res, [ node_type |-> "CHILD_SEGMENT",
                                            selectors |->
                                                _convert_to_bracketed_selection(sub.res.node) ]),
                             sub.token_index)
    IN IF current_token(token_index).token_type = "LBRACKET"
       THEN Call(bracketed_selection(token_index), registered)
       ELSE IF current_token(token_index).token_type # "DOT"
       THEN Produced(failure(ParseResult, Error("InvalidSyntaxError", "Expected [ or .")),
                     token_index)
       ELSE IF current_token(token_index + 1).token_type = "STAR"
       THEN Call(wildcard_selector(token_index + 1), shorthand)
       ELSE IF current_token(token_index + 1).token_type
                   \in { "IDENTIFIER", "TRUE", "FALSE", "NULL" }
       THEN Call(member_name_shorthand(token_index + 1), shorthand)
       ELSE Produced(failure(register_advancement(ParseResult),
                             Error("InvalidSyntaxError", "Expected '.', '*', or identifier")),
                     token_index + 1)

descendant_segment(token_index) ==
    LET advanced == register_advancement(ParseResult)
        bracketed(sub) ==
            LET res == register(advanced, sub.res)
            IN IF sub.exc # "" THEN sub
               ELSE IF res.error # None THEN Produced(res, sub.token_index)
               ELSE Produced(success(res, [ node_type |-> "DESCENDANT_SEGMENT",
                                            selectors |-> sub.res.node.selectors ]),
                             sub.token_index)
        shorthand(sub) ==
            Produced(success(register(advanced, sub.res),
                             [ node_type |-> "DESCENDANT_SEGMENT",
                               selectors |-> _convert_to_bracketed_selection(sub.res.node) ]),
                     sub.token_index)
    IN IF current_token(token_index).token_type # "DOUBLE_DOT"
       THEN Produced(failure(ParseResult, Error("InvalidSyntaxError", "Expected ..")),
                     token_index)
       ELSE IF current_token(token_index + 1).token_type = "LBRACKET"
       THEN Call(bracketed_selection(token_index + 1), bracketed)
       ELSE IF current_token(token_index + 1).token_type = "STAR"
       THEN Call(wildcard_selector(token_index + 1), shorthand)
       ELSE IF current_token(token_index + 1).token_type = "IDENTIFIER"
       THEN Call(member_name_shorthand(token_index + 1), shorthand)
       ELSE Produced(failure(advanced, Error("InvalidSyntaxError",
                                             "Expected '[', '*', or identifier")),
                     token_index + 1)

segment(token_index) ==
    LET registered(sub) ==
            LET res == register(ParseResult, sub.res)
            IN IF sub.exc # "" THEN sub
               ELSE IF res.error # None THEN Produced(res, sub.token_index)
               ELSE Produced(success(res, sub.res.node), sub.token_index)
    IN IF current_token(token_index).token_type = "DOUBLE_DOT"
       THEN Call(descendant_segment(token_index), registered)
       ELSE Call(child_segment(token_index), registered)

segments(token_index) ==
    LET RECURSIVE more(_, _, _)
        more(res, at, segments_nodes) ==
            IF current_token(at).token_type \in SEGMENT_START_TOKEN_TYPES
            THEN Call(segment(at),
                      LAMBDA sub :
                          IF sub.exc # "" THEN sub
                          ELSE Call(register(res, sub.res),
                                    LAMBDA registered :
                                        IF registered.error # None
                                        THEN Produced(registered, sub.token_index)
                                        ELSE IF sub.res.node = None
                                        THEN Produced(failure(registered,
                                                 Error("InvalidSyntaxError",
                                                       "Expected to parse a Segment")),
                                                 sub.token_index)
                                        ELSE more(registered, sub.token_index,
                                                  Append(segments_nodes, sub.res.node))))
            ELSE Produced(success(res, [ node_type |-> "SEGMENTS", segments |-> segments_nodes ]),
                          at)
    IN more(ParseResult, token_index, << >>)

jsonpath_query(token_index) ==
    LET advanced == register_advancement(ParseResult)
        registered(sub) ==
            LET res == register(advanced, sub.res)
            IN IF sub.exc # "" THEN sub
               ELSE IF res.error # None THEN Produced(res, sub.token_index)
               ELSE IF sub.res.node = None
               THEN Produced(failure(res, Error("InvalidSyntaxError",
                                                "Segments parsing returned no node")),
                             sub.token_index)
               ELSE Produced(success(res, [ node_type |-> "JSONPATH_QUERY",
                                            segments |-> sub.res.node.segments ]),
                             sub.token_index)
    IN IF current_token(token_index).token_type # "DOLLAR"
       THEN Produced(failure(ParseResult, Error("InvalidSyntaxError", "Expected '$'")),
                     token_index)
       ELSE IF current_token(token_index + 1).token_type = "EOF"
       THEN Produced(success(advanced, [ node_type |-> "JSONPATH_QUERY", segments |-> << >> ]),
                     token_index + 1)
       ELSE Call(segments(token_index + 1), registered)

rel_query(token_index) ==
    LET advanced == register_advancement(ParseResult)
        registered(sub) ==
            LET res == register(advanced, sub.res)
            IN IF sub.exc # "" THEN sub
               ELSE IF res.error # None THEN Produced(res, sub.token_index)
               ELSE Produced(success(res, [ node_type |-> "RELATIVE_QUERY",
                                            segments |-> sub.res.node.segments ]),
                             sub.token_index)
    IN IF current_token(token_index).token_type # "AT"
       THEN Produced(failure(ParseResult, Error("InvalidSyntaxError", "Expected '@'")),
                     token_index)
       ELSE Call(segments(token_index + 1), registered)

filter_query(token_index) ==
    LET registered(sub) ==
            LET res == register(ParseResult, sub.res)
            IN IF sub.exc # "" THEN sub
               ELSE IF res.error # None THEN Produced(res, sub.token_index)
               ELSE Produced(success(res, sub.res.node), sub.token_index)
    IN IF current_token(token_index).token_type \notin FILTER_QUERY_FIRST_SET
       THEN Produced(failure(ParseResult, Error("InvalidSyntaxError", "Expected '@' or '$'")),
                     token_index)
       ELSE IF current_token(token_index).token_type = "AT"
       THEN Call(rel_query(token_index), registered)
       ELSE Call(jsonpath_query(token_index), registered)

production(name, token_index) ==
    CASE name = "filter_selector" -> filter_selector(token_index)
      [] name = "logical_expr" -> logical_expr(token_index)
      [] name = "logical_or_expr" -> logical_or_expr(token_index)
      [] name = "logical_and_expr" -> logical_and_expr(token_index)
      [] name = "basic_expr" -> basic_expr(token_index)
      [] name = "paren_expr" -> paren_expr(token_index)
      [] name = "comparison_expr" -> comparison_expr(token_index)
      [] name = "test_expr" -> test_expr(token_index)
      [] name = "comparable" -> comparable(token_index)
      [] name = "function_expr" -> function_expr(token_index)
      [] name = "function_argument" -> function_argument(token_index)
      [] name = "number_literal" -> number_literal(token_index)
      [] name = "string_literal" -> string_literal(token_index)
      [] name = "json_keyword" -> json_keyword(token_index)
      [] name = "filter_query" -> filter_query(token_index)

start(token_index) ==
    LET registered(sub) ==
            LET res == register(ParseResult, sub.res)
            IN IF sub.exc # "" THEN sub
               ELSE IF res.error # None THEN Produced(res, sub.token_index)
               ELSE IF sub.res.node = None
               THEN Produced(failure(res, Error("InvalidSyntaxError",
                                                "Expected jsonpath_query")),
                             sub.token_index)
               ELSE IF current_token(sub.token_index).token_type # "EOF"
               THEN Produced(failure(res, Error("InvalidSyntaxError",
                                                "Parser completed before EOF")),
                             sub.token_index)
               ELSE Produced(success(res, sub.res.node), sub.token_index)
    IN IF current_token(token_index).token_type # "DOLLAR"
       THEN Produced(failure(ParseResult, Error("InvalidSyntaxError", "Expected '$'")),
                     token_index)
       ELSE Call(jsonpath_query(token_index), registered)

\* JPathParser(tokens).parse(): the parser starts on the first token
parse ==
    /\ pc = "parse"
    /\ LET returned(sub) ==
               LET res == register(ParseResult, sub.res)
               IN IF sub.exc # "" THEN Raised(sub.exc)
                  ELSE IF res.error # None THEN [ status |-> "returned", res |-> res ]
                  ELSE [ status |-> "returned", res |-> success(res, sub.res.node) ]
       IN parseOut' = Call(start(1), returned)
    /\ pc' = "parsed"
    /\ UNCHANGED << heap, root, query, segIdx, nodelist, warnings, result, rootNode,
                    cmpVars, tokens, lexer_text, lexOut, callVars, regVars >>

NextParse == parse

\* the token lists the lexer produces for the enumerated queries: "$", one
\* bracketed selection of 1..MaxSelectors selectors, end of input
MaxText == << "9", "0", "0", "7", "1", "9", "9", "2", "5", "4", "7", "4", "0", "9", "9", "1" >>
BeyondText == << "9", "0", "0", "7", "1", "9", "9", "2", "5", "4", "7", "4", "0", "9", "9", "2" >>
IntTexts == { << "0" >>, << "1" >>, << "-", "1" >>, MaxText, << "-" >> \o MaxText,
              BeyondText, << "-" >> \o BeyondText }
SliceTexts == { << ":" >>, << "1", ":", "2", ":", "1" >>, MaxText \o << ":" >>,
                BeyondText \o << ":" >>, << ":" >> \o BeyondText,
                << ":", ":" >> \o BeyondText, << ":", ":", "-" >> \o BeyondText }
SelectorTokens ==
    { Token("STRING", << SINGLE_QUOTE, "a", SINGLE_QUOTE >>), Token("STAR", << "*" >>) }
    \cup { Token("INT", t) : t \in IntTexts } \cup { Token("SLICE", t) : t \in SliceTexts }
TokenLists ==
    LET RECURSIVE commas(_)
        commas(sels) == IF Len(sels) = 1 THEN sels
                        ELSE << Head(sels), Token("COMMA", << "," >>) >> \o commas(Tail(sels))
    IN { << Token("DOLLAR", << "$" >>), Token("LBRACKET", << "[" >>) >> \o commas(sels)
         \o << Token("RBRACKET", << "]" >>), Token("EOF", << >>) >> :
         sels \in UNION { [ 1..n -> SelectorTokens ] : n \in 1..MaxSelectors } }

InitParse ==
    /\ tokens \in TokenLists
    /\ parseOut = Pending /\ lexer_text = << >> /\ lexOut = Pending
    /\ pc = "parse" /\ heap = << >> /\ root = Null /\ query = << >> /\ segIdx = 0
    /\ nodelist = << >> /\ warnings = << >> /\ result = Pending /\ rootNode = RootNode
    /\ cmpLeft = Null /\ cmpRight = Null /\ cmpOut = << >>
    /\ IdleCall /\ IdleRegistry

SpecParse == InitParse /\ [][NextParse]_vars

\* _FunctionRegistry.register: the descriptor is stored under its name
register_function(registered, func) ==
    [ name \in DOMAIN registered \cup { func.func_name } |->
        IF name = func.func_name THEN func ELSE registered[name] ]

\* functions a caller registers: blt takes one LogicalType parameter, nop none
BltFunction == FunctionNode("blt", "LogicalType", << FunctionParam("param1", "LogicalType") >>)
NopFunction == FunctionNode("nop", "LogicalType", << >>)

\* the token lists of the enumerated filters: "$[?", a call of 0..MaxArgs
\* arguments, bare, negated or compared with 1, "]"; and the one-selector
\* lists without a filter
MaxArgs == 2
FilterTokenLists ==
    LET T(token_type, lexeme) == << Token(token_type, lexeme) >>
        one == T("INT", << "1" >>)
        eq == T("EQUAL", << "=", "=" >>)
        lp == T("LPAREN", << "(" >>)
        rp == T("RPAREN", << ")" >>)
        not == T("NOT", << "!" >>)
        comma == T("COMMA", << "," >>)
        text == [ blt |-> << "b", "l", "t" >>, nop |-> << "n", "o", "p" >>,
                  length |-> << "l", "e", "n", "g", "t", "h" >>,
                  foo |-> << "f", "o", "o" >> ]
        name(f) == T("IDENTIFIER", text[f])
        cmp == one \o eq \o one
        arguments ==
            { one, cmp, cmp \o T("AND", << "&", "&" >>) \o cmp,
              cmp \o T("OR", << "|", "|" >>) \o cmp,
              not \o lp \o cmp \o rp, lp \o cmp \o rp,
              not \o name("nop") \o lp \o rp, name("nop") \o lp \o rp,
              name("length") \o lp \o one \o rp, one \o eq,
              name("blt") \o lp \o cmp \o rp }
        RECURSIVE commas(_)
        commas(args) == IF Len(args) = 0 THEN << >>
                        ELSE IF Len(args) = 1 THEN args[1]
                        ELSE args[1] \o comma \o commas(Tail(args))
        calls == { name(f) \o lp \o commas(args) \o rp :
                     f \in DOMAIN text,
                     args \in UNION { [ 1..n -> arguments ] : n \in 0..MaxArgs } }
        bodies == calls \cup { not \o c : c \in calls } \cup { c \o eq \o one : c \in calls }
        framed(selector_tokens) ==
            << Token("DOLLAR", << "$" >>), Token("LBRACKET", << "[" >>) >> \o selector_tokens
            \o << Token("RBRACKET", << "]" >>), Token("EOF", << >>) >>
    IN { framed(T("QMARK", << "?" >>) \o body) : body \in bodies }
       \cup { framed(<< token >>) : token \in SelectorTokens }

InitFilter ==
    /\ tokens \in FilterTokenLists
    /\ parseOut = Pending /\ lexer_text = << >> /\ lexOut = Pending
    /\ pc = "parse" /\ heap = << >> /\ root = Null /\ query = << >> /\ segIdx = 0
    /\ nodelist = << >> /\ warnings = << >> /\ result = Pending /\ rootNode = RootNode
    /\ cmpLeft = Null /\ cmpRight = Null /\ cmpOut = << >>
    /\ IdleCall
    /\ functions = register_function(register_function(KnownFunctions, BltFunction),
                                     NopFunction)
    /\ registry = [ instance |-> TRUE, lock |-> 0 ] /\ threads = << >>

SpecFilter == InitFilter /\ [][NextParse]_vars

-----------------------------------------------------------------------------
(* Claims about query evaluation, checked under Spec                       *)

\* the containers a container refers to directly
RefsOf(h, c) == { v.a : v \in { CellValues(h[c])[k] : k \in 1..Len(CellValues(h[c])) }
                              \cap { Ref(a) : a \in 1..Len(h) } }

RECURSIVE ReachWithin(_, _, _)
ReachWithin(h, from, steps) ==
    IF steps = 0 THEN from
    ELSE ReachWithin(h, from \cup UNION { RefsOf(h, c) : c \in from }, steps - 1)
\* the containers below container c: its descendants
Below(h, c) == ReachWithin(h, RefsOf(h, c), Len(h))
\* a container that refers to itself or to one of its ancestor containers
RefersToAncestor(h, c) == \E d \in RefsOf(h, c) : d = c \/ c \in Below(h, d)
Acyclic(h) == \A c \in 1..Len(h) : c \notin Below(h, c)

\* how many nodes of a nodelist carry the value v
Occurrences(nodes, v) == Cardinality({ k \in 1..Len(nodes) : nodes[k].jvalue = v })

\* the values of the descendants of v in breadth-first order: nodes before
\* their descendants, elements in index order, members in insertion order
BreadthFirstValues(v) ==
    LET RECURSIVE walk(_, _)
        walk(queue, out) ==
            IF queue = << >> THEN out
            ELSE LET children == IF Head(queue).t = "ref"
                                 THEN CellValues(heap[Head(queue).a]) ELSE << >>
                 IN walk(Tail(queue) \o children, out \o children)
    IN walk(<< v >>, << >>)

DescendantWildcardDone ==
    pc = "done" /\ query = DescendantWildcardQuery /\ root = Ref(1)

\* C1: for any root value containing a container that refers to one of its
\* ancestor containers, evaluating $..* returns, has emitted at least one
\* warning, and emits no such container twice
C1_CycleSafety ==
    (DescendantWildcardDone /\ \E c \in 1..Len(heap) : RefersToAncestor(heap, c))
    => /\ result.status = "returned"
       /\ Len(warnings) >= 1
       /\ \A c \in 1..Len(heap) :
            RefersToAncestor(heap, c) => Occurrences(result.nodes, Ref(c)) <= 1

\* C2: for every compiled query and every root value, eval returns a
\* nodelist: no exception reaches the caller
C2_NoExceptionLeaks == pc = "done" => result.status = "returned"

\* C3: $..* emits every descendant of the root exactly once, in breadth-first
\* order; stated for the documents without reference cycles that are no
\* deeper than the traversal cap, where nothing is suppressed
C3_DescendantOrder ==
    (DescendantWildcardDone /\ Acyclic(heap) /\ Len(heap) <= max_depth)
    => /\ result.status = "returned"
       /\ [ k \in 1..Len(result.nodes) |-> result.nodes[k].jvalue ]
            = BreadthFirstValues(root)
       /\ \A i, j \in 1..Len(result.nodes) :
            result.nodes[i].jpath = result.nodes[j].jpath => i = j

\* a selector that selects nothing of the value v: a name selector on a value
\* that is no object or has no such member, an index selector on a value that
\* is no array or has no such element
SelectsNothing(sel, v) ==
    CASE sel.t = "name" -> ~ (IsDict(v) /\ HasKey(v, sel.member_name))
      [] sel.t = "index" ->
            ~ (IsList(v) /\ (0 - len(v)) <= sel.index /\ sel.index < len(v))
      [] OTHER -> FALSE

\* C4: in a query of one child segment, the selectors that name an absent
\* member, an index out of range, or are applied to a value of the wrong kind
\* raise nothing and contribute no node: the result is that of the segment
\* without them
C4_MissingSelectsNothing ==
    (pc = "done" /\ Len(query) = 1 /\ query[1].kind = "child" /\ root # Null)
    => LET kept == SelectSeq(query[1].selectors, LAMBDA sel : ~ SelectsNothing(sel, root))
           others == visit_SegmentNode([ query[1] EXCEPT !.selectors = kept ],
                                       root_nodelist(root))
       IN others.exc = "" => result = Returned(others.nodes)

------------------------------------------------------------------------------
(* Claims about parsing, checked under SpecParse                           *)

\* a Python int outside the range -(2^53 - 1) .. 2^53 - 1
OutsideRange(i) == IntLess(INT_MAX, i) \/ IntLess(i, INT_MIN)
\* a token that is an index selector, or a slice with a bound, outside the range
OutOfRangeToken(token) ==
    \/ token.token_type = "INT" /\ OutsideRange(int(token.value))
    \/ /\ token.token_type = "SLICE"
       /\ \E group \in { SLICE_SELECTOR(token.value).start, SLICE_SELECTOR(token.value).end,
                         SLICE_SELECTOR(token.value).step } \ { << >> } :
              OutsideRange(int(group))
ParseDone == pc = "parsed"

\* C5: whenever an index selector or a slice start, end or step of the query
\* lies outside -(2^53 - 1) .. 2^53 - 1, parsing returns a result whose error
\* is a ValidationError, at whatever place of the bracketed selection the
\* selector stands
C5_RangeValidation ==
    (ParseDone /\ \E k \in 1..Len(tokens) : OutOfRangeToken(tokens[k]))
        => /\ parseOut.status = "returned"
           /\ parseOut.res.error # None
           /\ parseOut.res.error.error_name = "ValidationError"

-----------------------------------------------------------------------------
(* Claims about comparisons, checked under SpecCmp                         *)

\* every call has been made
CmpDone == pc = "compare" /\ Len(cmpOut) = Len(Calls)
\* the outcome of operator op on (cmpLeft, cmpRight), or on the swapped pair
Out(op, swapped) ==
    cmpOut[CHOOSE k \in 1..Len(Calls) : Calls[k] = [ op |-> op, swapped |-> swapped ]]
\* the comparison yielded true
Holds(r) == r.exc = "" /\ r.val
\* two calls ended the same way: the same exception, or the same value
SameOutcome(r1, r2) == r1.exc = r2.exc /\ (r1.exc = "" => r1.val = r2.val)
\* a == b for two values of the heap, as ComparisonOperatorType.eval computes it
Equal(a, b) == Holds(ComparisonOperatorType_eval("EQ", a, b))

\* C6: for acyclic operands nested less deep than the traversal cap, == on
\* two arrays is true exactly when they have the same length and equal
\* elements at every index, and == on two objects is true exactly when they
\* have the same key set and equal values for every key
C6_StructuralEquality ==
    (CmpDone /\ cmpLeft.t = "ref" /\ cmpRight.t = "ref"
       /\ Acyclic(heap) /\ Len(heap) < max_depth)
    => /\ (IsList(cmpLeft) /\ IsList(cmpRight))
            => (Holds(Out("EQ", FALSE))
                  <=> /\ len(cmpLeft) = len(cmpRight)
                      /\ \A i \in 0..(len(cmpLeft) - 1) :
                           Equal(getitem(cmpLeft, i), getitem(cmpRight, i)))
       /\ (IsDict(cmpLeft) /\ IsDict(cmpRight))
            => (Holds(Out("EQ", FALSE))
                  <=> /\ \A k \in 1..len(cmpLeft) : HasKey(cmpRight, heap[cmpLeft.a].keys[k])
                      /\ \A k \in 1..len(cmpRight) : HasKey(cmpLeft, heap[cmpRight.a].keys[k])
                      /\ \A k \in 1..len(cmpLeft) :
                           Equal(heap[cmpLeft.a].vals[k],
                                 getmember(cmpRight, heap[cmpLeft.a].keys[k])))

\* the JSON type of an operand, Int and Float unified as number
JsonType(v) ==
    LET raw == _unwrap(v)
    IN CASE raw.t \in { "int", "float" } -> "number"
         [] raw.t = "ref" -> heap[raw.a].kind
         [] OTHER -> raw.t

\* C7: operands of different JSON types are never equal under == and never
\* related by < or >, a boolean compared with a number included
C7_DifferentTypes ==
    (CmpDone /\ cmpLeft # Nothing /\ cmpRight # Nothing
       /\ JsonType(cmpLeft) # JsonType(cmpRight))
    => /\ ~ Holds(Out("EQ", FALSE))
       /\ ~ Holds(Out("LT", FALSE))
       /\ ~ Holds(Out("GT", FALSE))

\* C8: for two boolean operands a and b, a < b and a > b are both false
C8_BooleansUnordered ==
    (CmpDone /\ JsonType(cmpLeft) = "bool" /\ JsonType(cmpRight) = "bool")
    => ~ Holds(Out("LT", FALSE)) /\ ~ Holds(Out("GT", FALSE))

\* C9: a != b is the negation of a == b; a <= b holds iff a < b or a == b;
\* a > b holds iff b < a; a >= b holds iff b <= a
C9_OperatorIdentities ==
    CmpDone
    => /\ Out("NE", FALSE).exc = Out("EQ", FALSE).exc
       /\ Out("NE", FALSE).exc = "" => (Out("NE", FALSE).val <=> ~ Out("EQ", FALSE).val)
       /\ IF Holds(Out("LT", FALSE)) THEN Holds(Out("LTE", FALSE))
          ELSE SameOutcome(Out("LTE", FALSE), Out("EQ", FALSE))
       /\ SameOutcome(Out("GT", FALSE), Out("LT", TRUE))
       /\ SameOutcome(Out("GTE", FALSE), Out("LTE", TRUE))

\* C10: == on an array or object that contains a reference cycle returns, goes
\* through no container of the left operand twice, logs a warning for the
\* repeat it skips, and stops with a warning at the maximum depth
C10_CycleDiscipline ==
    (CmpDone /\ cmpLeft = Ref(1) /\ cmpRight = Ref(1)
       /\ \E c \in { 1 } \cup Below(heap, 1) : RefersToAncestor(heap, c))
    => LET eq == Out("EQ", FALSE)
       IN /\ eq.exc = ""
          /\ \A i, j \in 1..Len(eq.descents) : eq.descents[i] = eq.descents[j] => i = j
          /\ Len(eq.warns) >= 1
          /\ Len(eq.descents) <= max_depth

------------------------------------------------------------------------------
(* Claims about function extensions, checked under SpecCall                *)

CallDone == pc = "called"
\* the JSON value an argument stands for: the value of the node of a
\* singular query, the value of a literal, or the value itself; Nothing for
\* the empty nodelist
ArgumentValue(arg) ==
    CASE arg.t = "nodelist" ->
             IF Len(arg.node_list) = 1 THEN arg.node_list[1].jvalue ELSE Nothing
      [] arg.t = "evaluator_value" -> arg.value
      [] OTHER -> arg
\* an I-Regexp of the enumerated patterns, and its match of a whole string:
\* an unclosed group does not conform; "." matches any character except a
\* line feed and a carriage return
Conforming(pattern) == \A k \in 1..Len(pattern) : pattern[k] # "("
MatchesWhole(pattern, string) ==
    /\ Len(pattern) = Len(string)
    /\ \A k \in 1..Len(pattern) :
         IF pattern[k] = "." THEN string[k] \notin { "<LF>", "<CR>" }
         ELSE pattern[k] = string[k]

\* C11: match(s, pattern) returns LogicalTrue exactly when s is a string,
\* pattern is a string that is a conforming regular expression and the
\* pattern matches the whole of s, and LogicalFalse in every other case
C11_MatchTotal ==
    (CallDone /\ fnCall.func_name = "match")
    => LET s == ArgumentValue(fnCall.args[1])
           pattern == ArgumentValue(fnCall.args[2])
       IN /\ fnOut.status = "returned"
          /\ fnOut.value = LogicalType(/\ s.t = "str" /\ pattern.t = "str"
                                       /\ Conforming(pattern.s)
                                       /\ MatchesWhole(pattern.s, s.s))

\* C12: length(v) returns the length of v when v is a string, an array or an
\* object, given as a literal or as the value of a singular query, and
\* Nothing for every other argument
C12_LengthOfValue ==
    (CallDone /\ fnCall.func_name = "length")
    => LET v == ArgumentValue(fnCall.args[1])
       IN /\ fnOut.status = "returned"
          /\ fnOut.value = IF v.t = "str" THEN IntVal(Len(v.s))
                           ELSE IF IsList(v) THEN IntVal(Len(heap[v.a].elems))
                           ELSE IF IsDict(v) THEN IntVal(Len(heap[v.a].keys))
                           ELSE Nothing


-----------------------------------------------------------------------------
(* Claims about filters and function calls, checked under SpecFilter       *)

\* the filter is one call of a function: "$[?", the name, "(" ... ")", "]"
IsCallOf(func_name) ==
    /\ Len(tokens) >= 8
    /\ tokens[3].token_type = "QMARK"
    /\ tokens[4].token_type = "IDENTIFIER"
    /\ get_registered_function(tokens[4].value) # None
    /\ get_registered_function(tokens[4].value).func_name = func_name
    /\ tokens[5].token_type = "LPAREN"
    /\ tokens[Len(tokens) - 2].token_type = "RPAREN"
    /\ tokens[Len(tokens) - 1].token_type = "RBRACKET"

\* the one argument of that call where it is a logical expression spanning
\* the whole argument list, and None otherwise
LogicalArgument ==
    LET sub == logical_expr(6)
    IN IF sub.exc = "" /\ sub.res.error = None /\ sub.token_index = Len(tokens) - 2
       THEN sub.res.node ELSE None

Accepted == parseOut.status = "returned" /\ parseOut.res.error = None
Rejected(error_name) ==
    /\ parseOut.status = "returned"
    /\ parseOut.res.error # None
    /\ parseOut.res.error.error_name = error_name

\* C13: an argument that is a comparison, a logical AND, a logical OR or a
\* negation is inferred as LogicalType and the parser accepts it for the
\* LogicalType parameter of blt
C13_LogicalArgumentAccepted ==
    (/\ ParseDone
     /\ IsCallOf("blt")
     /\ LogicalArgument # None
     /\ LogicalArgument.node_type \in { "COMPARISON_EXPR", "LOGICAL_AND_EXPR",
                                        "LOGICAL_OR_EXPR", "LOGICAL_NOT" })
    => /\ _param_type_for_node(LogicalArgument, BltFunction.param_list[1])
            = [ exc |-> "", arg_type |-> "LogicalType" ]
       /\ Accepted

\* the tokens of $[?blt(<argument>)]
BltQuery(argument) ==
    << Token("DOLLAR", << "$" >>), Token("LBRACKET", << "[" >>), Token("QMARK", << "?" >>),
       Token("IDENTIFIER", << "b", "l", "t" >>), Token("LPAREN", << "(" >>) >>
    \o argument
    \o << Token("RPAREN", << ")" >>), Token("RBRACKET", << "]" >>), Token("EOF", << >>) >>
IntOne == Token("INT", << "1" >>)

\* C14: with blt registered with one LogicalType parameter, $[?blt(1)] fails
\* with a ValidationError on the argument 1 (expected LogicalType, got
\* ValueType) and $[?blt(1==1)] parses
C14_BltWellTyped ==
    (ParseDone /\ "blt" \in DOMAIN functions /\ functions["blt"] = BltFunction)
    => /\ tokens = BltQuery(<< IntOne >>)
            => /\ parseOut.status = "returned"
               /\ parseOut.res.error
                    = ValidationError(Position(6, 7), "Expected LogicalType but got ValueType")
               /\ tokens[6] = IntOne
       /\ tokens = BltQuery(<< IntOne, Token("EQUAL", << "=", "=" >>), IntOne >>)
            => /\ Accepted
               /\ parseOut.res.node.segments[1].selectors[1].node.node_type = "FUNCTION_CALL"

C14_Witness ==
    /\ ParseDone
    /\ tokens = BltQuery(<< IntOne >>)
    /\ functions["blt"] = BltFunction
    /\ Rejected("ValidationError")

\* the arguments of the call are integer literals: their number, and -1 for
\* any other argument list
LiteralArguments ==
    LET inner == SubSeq(tokens, 6, Len(tokens) - 3)
    IN IF \A k \in 1..Len(inner) :
              inner[k].token_type = (IF k % 2 = 1 THEN "INT" ELSE "COMMA")
       THEN (Len(inner) + 1) \div 2
       ELSE 0 - 1

\* the function calls of a syntax tree
RECURSIVE FunctionCalls(_)
FunctionCalls(node) ==
    LET type == node.node_type
        over(nodes) == UNION { FunctionCalls(nodes[k]) : k \in 1..Len(nodes) }
    IN CASE type = "JSONPATH_QUERY" -> over(node.segments)
         [] type = "CHILD_SEGMENT" -> over(node.selectors)
         [] type \in { "FILTER_SELECTOR", "LOGICAL_NOT" } -> FunctionCalls(node.node)
         [] type \in { "LOGICAL_AND_EXPR", "LOGICAL_OR_EXPR" } -> over(node.nodes)
         [] type = "COMPARISON_EXPR" ->
                FunctionCalls(node.left_node) \cup FunctionCalls(node.right_node)
         [] type = "FUNCTION_CALL" ->
                { node } \cup over([ k \in 1..Len(node.args) |-> node.args[k].arg_node ])
         [] OTHER -> {}

\* C15: a call whose number of arguments differs from the number of
\* parameters of the registered function is rejected with a ValidationError,
\* and every call of a parsed query has as many arguments as parameters
C15_ArityChecked ==
    ParseDone
    => /\ \A f \in DOMAIN functions :
            (/\ IsCallOf(f)
             /\ LiteralArguments >= 0
             /\ LiteralArguments # Len(functions[f].param_list))
            => Rejected("ValidationError")
       /\ Accepted
            => \A fcn \in FunctionCalls(parseOut.res.node) :
                   Len(fcn.args) = Len(fcn.func_node.param_list)

\* C16: when the attempt of comparison_expr at the start of a filter fails,
\* backtracking by the recorded count puts the parser back on the token the
\* attempt started from
C16_TryRestoresIndex ==
    (/\ ParseDone
     /\ tokens[3].token_type = "QMARK"
     /\ tokens[4].token_type \notin { "NOT", "LPAREN" })
    => LET sub == comparison_expr(4)
           tried == try_register(ParseResult, sub.res)
       IN (sub.exc = "" /\ sub.res.error # None)
          => backtrack(sub.token_index, tried.to_reverse_count) = 4

-----------------------------------------------------------------------------
(* The function registry under threads (function.py, _FunctionRegistry)    *)
(* The state starts where the class body has run (_instance None, the lock *)
(* free) and thread 1, the importing thread, is about to run               *)
(* register_known_functions(); the other threads call register_function    *)
(* and get_registered_function once the module is imported.  registry      *)
(* holds _instance (instance), the holder of _lock (lock, 0 when free),    *)
(* the number of _FunctionRegistry objects constructed (instances) and     *)
(* whether the import is over (imported).  A step of a thread is one read  *)
(* or one write of shared state: a dict store and a dict get are each one  *)
(* step.                                                                   *)

MaxThreads == 2
Threads == 1..MaxThreads
KnownNames == << "length", "count", "match", "search", "value" >>

Thread(pc_, func, func_name, known, out) ==
    [ pc |-> pc_, func |-> func, func_name |-> func_name, known |-> known, out |-> out ]
\* what a thread goes on with once its call has returned
Returned_to(thread) ==
    IF thread.known > 0 THEN "register_known_functions" ELSE "idle"

\* for func in known_functions: cls.instance().register(func)
register_known_functions(t) ==
    LET thread == threads[t]
    IN /\ thread.pc = "register_known_functions"
       /\ IF thread.known <= Len(KnownNames)
          THEN /\ threads' = [ threads EXCEPT ![t] =
                     [ thread EXCEPT !.pc = "instance",
                                     !.func = KnownFunctions[KnownNames[thread.known]],
                                     !.known = thread.known + 1 ] ]
               /\ UNCHANGED << registry, evalVars, cmpVars, parseVars, callVars >>
          ELSE /\ threads' = [ threads EXCEPT ![t] = [ thread EXCEPT !.pc = "idle", !.known = 0 ] ]
               /\ registry' = [ registry EXCEPT !.imported = TRUE ]
       /\ UNCHANGED << functions, evalVars, cmpVars, parseVars, callVars >>

\* register_function(func): _FunctionRegistry.instance().register(func)
call_register_function(t, func) ==
    /\ registry.imported
    /\ threads[t].pc = "idle"
    /\ threads' = [ threads EXCEPT ![t] =
          [ @ EXCEPT !.pc = "instance", !.func = func, !.func_name = "" ] ]
    /\ UNCHANGED << functions, registry, evalVars, cmpVars, parseVars, callVars >>

\* get_registered_function(func_name): _FunctionRegistry.instance().lookup(func_name)
call_get_registered_function(t, func_name) ==
    /\ registry.imported
    /\ threads[t].pc = "idle"
    /\ threads' = [ threads EXCEPT ![t] =
          [ @ EXCEPT !.pc = "instance", !.func = None, !.func_name = func_name ] ]
    /\ UNCHANGED << functions, registry, evalVars, cmpVars, parseVars, callVars >>

\* _FunctionRegistry.instance(): if cls._instance is not None: return cls._instance
_FunctionRegistry_instance(t) ==
    /\ threads[t].pc = "instance"
    /\ threads' = [ threads EXCEPT ![t].pc =
          IF registry.instance THEN (IF threads[t].func # None THEN "register" ELSE "lookup")
          ELSE "_init_instance" ]
    /\ UNCHANGED << functions, registry, evalVars, cmpVars, parseVars, callVars >>

\* _init_instance(): the first test of cls._instance, outside the lock
_init_instance(t) ==
    /\ threads[t].pc = "_init_instance"
    /\ threads' = [ threads EXCEPT ![t].pc =
          IF ~registry.instance THEN "acquire"
          ELSE IF threads[t].func # None THEN "register" ELSE "lookup" ]
    /\ UNCHANGED << functions, registry, evalVars, cmpVars, parseVars, callVars >>

\* with cls._lock: the thread waits until the lock is free
acquire(t) ==
    /\ threads[t].pc = "acquire"
    /\ registry.lock = 0
    /\ registry' = [ registry EXCEPT !.lock = t ]
    /\ threads' = [ threads EXCEPT ![t].pc = "locked" ]
    /\ UNCHANGED << functions, evalVars, cmpVars, parseVars, callVars >>

\* if cls._instance is None: cls._instance = _FunctionRegistry()
locked(t) ==
    /\ threads[t].pc = "locked"
    /\ IF ~registry.instance
       THEN /\ registry' = [ registry EXCEPT !.instance = TRUE,
                                             !.instances = registry.instances + 1 ]
            /\ functions' = << >>
       ELSE UNCHANGED << registry, functions >>
    /\ threads' = [ threads EXCEPT ![t].pc = "release" ]
    /\ UNCHANGED << evalVars, cmpVars, parseVars, callVars >>

\* the end of the with block, and return cls._instance
release(t) ==
    /\ threads[t].pc = "release"
    /\ registry' = [ registry EXCEPT !.lock = 0 ]
    /\ threads' = [ threads EXCEPT ![t].pc =
          IF threads[t].func # None THEN "register" ELSE "lookup" ]
    /\ UNCHANGED << functions, evalVars, cmpVars, parseVars, callVars >>

\* _FunctionRegistry.register(): self.functions[func.func_name] = func
_FunctionRegistry_register(t) ==
    /\ threads[t].pc = "register"
    /\ functions' = register_function(functions, threads[t].func)
    /\ threads' = [ threads EXCEPT ![t] =
          [ threads[t] EXCEPT !.pc = Returned_to(threads[t]), !.func = None ] ]
    /\ UNCHANGED << registry, evalVars, cmpVars, parseVars, callVars >>

\* _FunctionRegistry.lookup(): return self.functions.get(func_name, None)
_FunctionRegistry_lookup(t) ==
    LET name == threads[t].func_name
    IN /\ threads[t].pc = "lookup"
       /\ threads' = [ threads EXCEPT ![t] =
             [ @ EXCEPT !.pc = "idle",
                        !.out = IF name \in DOMAIN functions THEN functions[name] ELSE None ] ]
       /\ UNCHANGED << functions, registry, evalVars, cmpVars, parseVars, callVars >>

\* the functions the threads register: blt, nop, and a length of two parameters
RegisteredFunctions ==
    { BltFunction, NopFunction,
      FunctionNode("length", "ValueType",
                   << FunctionParam("value", "ValueType"), FunctionParam("unit", "ValueType") >>) }
LookedUpNames == { "length", "blt", "nop" }

NextRegistry ==
    \E t \in Threads :
          \/ register_known_functions(t)
          \/ \E func \in RegisteredFunctions : call_register_function(t, func)
          \/ \E func_name \in LookedUpNames : call_get_registered_function(t, func_name)
          \/ _FunctionRegistry_instance(t)
          \/ _init_instance(t)
          \/ acquire(t)
          \/ locked(t)
          \/ release(t)
          \/ _FunctionRegistry_register(t)
          \/ _FunctionRegistry_lookup(t)

InitRegistry ==
    /\ functions = << >>
    /\ registry = [ instance |-> FALSE, lock |-> 0, instances |-> 0, imported |-> FALSE ]
    /\ threads = [ t \in Threads |->
                     Thread(IF t = 1 THEN "register_known_functions" ELSE "idle",
                            None, "", IF t = 1 THEN 1 ELSE 0, None) ]
    /\ tokens = << >> /\ parseOut = Pending /\ lexer_text = << >> /\ lexOut = Pending
    /\ pc = "registry" /\ heap = << >> /\ root = Null /\ query = << >> /\ segIdx = 0
    /\ nodelist = << >> /\ warnings = << >> /\ result = Pending /\ rootNode = RootNode
    /\ cmpLeft = Null /\ cmpRight = Null /\ cmpOut = << >>
    /\ IdleCall

SpecRegistry == InitRegistry /\ [][NextRegistry]_vars

\* the registration a thread is about to perform, and the lookup it performs
Registering(t) == threads[t].pc = "register" /\ threads'[t].pc # "register"
LookingUp(t) == threads[t].pc = "lookup" /\ threads'[t].pc # "lookup"

\* C18: the registry is initialised once, every mutation of it after the
\* import happens while a thread holds the lock, and a lookup returns what
\* the registry holds for the name
C18_RegistrySafe ==
    [][ /\ registry'.instances <= 1
        /\ registry.instance => registry'.instance
        /\ \A t \in Threads :
              (registry.imported /\ Registering(t)) => registry.lock = t
        /\ \A t \in Threads :
              LookingUp(t)
              => threads'[t].out \in { None } \cup RegisteredFunctions
                                    \cup { KnownFunctions[n] : n \in DOMAIN KnownFunctions }
      ]_vars


\* C19: once eval has returned, the RootNode of the compiled query holds no
\* reference to the root value: neither its json_value nor a node of its
\* root_nodelist is the value that was passed in
C19_NoRootRetained ==
    (pc = "done" /\ result.status = "returned")
    => /\ rootNode.json_value # root
       /\ \A k \in 1..Len(rootNode.root_nodelist) :
              rootNode.root_nodelist[k].jvalue # root


-----------------------------------------------------------------------------
(* Member names made of quotes, backslashes and brackets                   *)

\* characters of an enumerated member name
MaxName == 4
NameAlphabet == { "a", SINGLE_QUOTE, BACKSLASH, "[", "]" }

\* $[*] on an object of one member, whose name is any string of at most
\* MaxName characters of NameAlphabet
InitNames ==
    /\ \E name \in SeqsUpTo(NameAlphabet, MaxName) :
          heap = << Object(<< name >>, << IntVal(1) >>) >>
    /\ root = Ref(1)
    /\ query = << ChildSegment(<< WildcardSelector >>) >>
    /\ InitEvalState
    /\ InitOther

SpecNames == InitNames /\ [][NextEval]_vars

\* the normal form of a member name: every character that _ESCAPE_MAP
\* escapes is escaped
RECURSIVE NormalName(_)
NormalName(name) ==
    IF name = << >> THEN << >> ELSE _ESCAPE_MAP(Head(name)) \o NormalName(Tail(name))

\* C20: the path of a result node is the normal form of the member it
\* locates, "$['" the name with every quote and backslash escaped "']", and
\* matches the normal-form pattern
C20_PathsNormal ==
    (pc = "done" /\ result.status = "returned" /\ IsDict(root))
    => \A k \in 1..Len(result.nodes) :
           /\ NORMALIZED_PATH_RE(result.nodes[k].jpath)
           /\ result.nodes[k].jpath
                = << "$", "[", SINGLE_QUOTE >> \o NormalName(heap[1].keys[k])
                  \o << SINGLE_QUOTE, "]" >>


-----------------------------------------------------------------------------
(* Claims about results, checked under Spec                                *)

\* C30: the query $ on the root value null returns the one node ($, null),
\* and a null root never ends an evaluation with an error
C30_NullRoot ==
    (pc = "done" /\ root = Null)
    => /\ result.status = "returned"
       /\ query = << >> => result.nodes = << VNode(<< "$" >>, Null) >>


\* the root is a map that holds itself as one member, its other members
\* being primitive values
SelfMap ==
    /\ root = Ref(1) /\ Len(heap) = 1 /\ heap[1].kind = "obj"
    /\ \E k \in 1..Len(heap[1].vals) :
          /\ heap[1].vals[k] = Ref(1)
          /\ \A j \in 1..Len(heap[1].vals) : j # k => heap[1].vals[j].t # "ref"

RECURSIVE NonCycleMembers(_)
\* the nodes of the members of the root map that are not the map itself,
\* from member k on
NonCycleMembers(k) ==
    IF k > Len(heap[1].vals) THEN << >>
    ELSE (IF heap[1].vals[k] = Ref(1) THEN << >>
          ELSE << VNode(<< "$", "[", SINGLE_QUOTE >> \o escape_string_content(heap[1].keys[k])
                        \o << SINGLE_QUOTE, "]" >>,
                        heap[1].vals[k]) >>)
         \o NonCycleMembers(k + 1)

\* C22: on a root map m with m["self"] = m, $..[*] terminates, returns the
\* members of m other than m itself and emits one cycle warning
C22_SelfMap ==
    (pc = "done" /\ SelfMap /\ query = DescendantWildcardQuery)
    => /\ result = Returned(NonCycleMembers(1))
       /\ Len(warnings) = 1
       /\ warnings[1].kind = "Cycle"



-----------------------------------------------------------------------------
(* Nodes below a member whose name holds quotes, backslashes or brackets   *)

\* $[*][*] and $..* on an object of one member, an array of one element,
\* the member's name any string of at most MaxName characters of NameAlphabet
InitDeep ==
    /\ \E name \in SeqsUpTo(NameAlphabet, MaxName) :
          heap = << Object(<< name >>, << Ref(2) >>), Array(<< IntVal(1) >>) >>
    /\ root = Ref(1)
    /\ query \in { << ChildSegment(<< WildcardSelector >>), ChildSegment(<< WildcardSelector >>) >>,
                   DescendantWildcardQuery }
    /\ InitEvalState
    /\ InitOther

SpecDeep == InitDeep /\ [][NextEval]_vars

\* the value a normalized path selects when it is evaluated as a query on
\* the root: [ found, value ], reading the path from character k on with the
\* value v reached so far
RECURSIVE Locate(_, _, _)
Locate(path, k, v) ==
    LET RECURSIVE closing(_)
        \* the place of the quote that ends the name begun before place i
        closing(i) ==
            IF i > Len(path) THEN 0
            ELSE IF path[i] = BACKSLASH THEN closing(i + 2)
            ELSE IF path[i] = SINGLE_QUOTE THEN i
            ELSE closing(i + 1)
        RECURSIVE bracket(_)
        bracket(i) == IF i > Len(path) THEN 0 ELSE IF path[i] = "]" THEN i ELSE bracket(i + 1)
        RECURSIVE number(_, _)
        number(i, j) ==
            IF i > j THEN 0
            ELSE 10 * number(i, j - 1)
                 + (CHOOSE d \in 0..9 : Digits[d + 1] = path[j])
        none == [ found |-> FALSE, value |-> Null ]
    IN IF k > Len(path) THEN [ found |-> TRUE, value |-> v ]
       ELSE IF path[k] # "[" \/ k = Len(path) THEN none
       ELSE IF path[k + 1] = SINGLE_QUOTE
       THEN LET end == closing(k + 2)
                name == unescape_string_content(SubSeq(path, k + 2, end - 1))
            IN IF end = 0 \/ end = Len(path) \/ path[end + 1] # "]" THEN none
               ELSE IF ~IsDict(v) THEN none
               ELSE IF ~HasKey(v, name) THEN none
               ELSE Locate(path, end + 2, getmember(v, name))
       ELSE LET end == bracket(k + 1)
                index == number(k + 1, end - 1)
            IN IF end = 0 THEN none
               ELSE IF ~IsList(v) THEN none
               ELSE IF index >= len(v) THEN none
               ELSE Locate(path, end + 1, getitem(v, index))

\* C28: the normalized path of a result node, evaluated as a query on the
\* same root, selects that node
C28_PathRoundTrip ==
    (pc = "done" /\ result.status = "returned")
    => \A k \in 1..Len(result.nodes) :
           Locate(result.nodes[k].jpath, 2, root)
             = [ found |-> TRUE, value |-> result.nodes[k].jvalue ]


-----------------------------------------------------------------------------
(* Equality of result nodes (value_nodes.py, VNode.__eq__)                 *)
(* A node holds a NormalizedJPath object and a value.  nodelist holds the  *)
(* two nodes compared and result the bool that __eq__ returns.             *)

\* a NormalizedJPath object: its identity and the str it wraps
NormalizedJPath(oid, jpath_str) == [ id |-> oid, jpath_str |-> jpath_str ]

\* NormalizedJPath defines no __eq__: object.__eq__, the identity of the two
NormalizedJPath___eq__(self, other) == self.id = other.id

RECURSIVE python_eq(_, _)
\* == of two JSON values as Python computes it: numbers, a bool among them,
\* by value; str by characters; list and dict by their contents
python_eq(a, b) ==
    IF IsIntOrFloat(a) /\ IsIntOrFloat(b) THEN NumberOf(a) = NumberOf(b)
    ELSE IF a.t = "str" /\ b.t = "str" THEN a.s = b.s
    ELSE IF a.t = "null" /\ b.t = "null" THEN TRUE
    ELSE IF IsList(a) /\ IsList(b)
    THEN /\ len(a) = len(b)
         /\ \A i \in 0..(len(a) - 1) : python_eq(getitem(a, i), getitem(b, i))
    ELSE IF IsDict(a) /\ IsDict(b)
    THEN /\ len(a) = len(b)
         /\ \A k \in 1..len(a) :
                /\ HasKey(b, heap[a.a].keys[k])
                /\ python_eq(heap[a.a].vals[k], getmember(b, heap[a.a].keys[k]))
    ELSE FALSE

\* VNode.__eq__
VNode___eq__(self, other) ==
    NormalizedJPath___eq__(self.jpath, other.jpath) /\ python_eq(self.jvalue, other.jvalue)

VNode_eq ==
    /\ pc = "eq"
    /\ result' = [ status |-> "returned", value |-> VNode___eq__(nodelist[1], nodelist[2]) ]
    /\ pc' = "compared"
    /\ UNCHANGED << heap, root, query, segIdx, nodelist, warnings, rootNode,
                    cmpVars, parseVars, callVars, regVars >>

NextNode == VNode_eq

\* the values of the compared nodes: primitives, and two arrays and two
\* objects of equal contents
NodeHeap ==
    << Array(<< IntVal(1) >>), Array(<< IntVal(1) >>),
       Object(<< << "a" >> >>, << IntVal(1) >>), Object(<< << "a" >> >>, << BoolVal(TRUE) >>) >>
NodeValues ==
    { Null, BoolVal(TRUE), BoolVal(FALSE), IntVal(0), IntVal(1), FloatVal(1),
      StrVal(<< "a" >>, StrObj) } \cup { Ref(a) : a \in 1..Len(NodeHeap) }
\* the path objects: two that wrap "$", as two evaluations build them, and
\* one that wraps "$[0]"
NodePaths ==
    { NormalizedJPath(1, << "$" >>), NormalizedJPath(2, << "$" >>),
      NormalizedJPath(3, << "$", "[", "0", "]" >>) }

InitNode ==
    /\ heap = NodeHeap
    /\ nodelist \in { << [ jpath |-> p1, jvalue |-> v1 ], [ jpath |-> p2, jvalue |-> v2 ] >> :
                        p1 \in NodePaths, p2 \in NodePaths, v1 \in NodeValues, v2 \in NodeValues }
    /\ pc = "eq" /\ root = Null /\ query = << >> /\ segIdx = 0
    /\ warnings = << >> /\ result = Pending /\ rootNode = RootNode
    /\ InitOther

SpecNode == InitNode /\ [][NextNode]_vars

RECURSIVE StructurallyEqual(_, _)
\* structural equality of two JSON values: the same type, Int and Float
\* being one numeric type, and the same contents
StructurallyEqual(a, b) ==
    IF a.t \in { "int", "float" } /\ b.t \in { "int", "float" } THEN a.n = b.n
    ELSE IF a.t = "bool" /\ b.t = "bool" THEN a.b = b.b
    ELSE IF a.t = "str" /\ b.t = "str" THEN a.s = b.s
    ELSE IF a.t = "null" /\ b.t = "null" THEN TRUE
    ELSE IF IsList(a) /\ IsList(b)
    THEN /\ len(a) = len(b)
         /\ \A i \in 0..(len(a) - 1) : StructurallyEqual(getitem(a, i), getitem(b, i))
    ELSE IF IsDict(a) /\ IsDict(b)
    THEN /\ len(a) = len(b)
         /\ \A k \in 1..len(a) :
                /\ HasKey(b, heap[a.a].keys[k])
                /\ StructurallyEqual(heap[a.a].vals[k], getmember(b, heap[a.a].keys[k]))
    ELSE FALSE

\* C21: two result nodes are equal exactly when their path strings are equal
\* and their values are structurally equal, whether or not they are the same
\* objects
C21_NodeEquality ==
    pc = "compared"
    => (result.value
          <=> /\ nodelist[1].jpath.jpath_str = nodelist[2].jpath.jpath_str
              /\ StructurallyEqual(nodelist[1].jvalue, nodelist[2].jvalue))


(***************************************************************************)
(* The lexer (lexing/lexer.py).  The offsets of a Position count from 0 as  *)
(* the lexer's do.                                                         *)
(***************************************************************************)
\* JPathLexer(file_name, text): the scan position and the tokens made so far
JPathLexer(string) == [ text |-> string, position |-> Position(0, 0), tokens |-> << >> ]
unparsed_text(self) == SubSeq(self.text, self.position.start + 1, Len(self.text))
current_char(self) == char_at(self.text, self.position.start + 1)
peek_next_chars(self, number_chars) ==
    SubSeq(unparsed_text(self), 1,
           IF number_chars < Len(unparsed_text(self)) THEN number_chars
           ELSE Len(unparsed_text(self)))
\* the text a match took from the unparsed text: match.group(0)
group(self, end_index) == SubSeq(self.text, self.position.start + 1, end_index - 1)
advance(self, length) ==
    [ self EXCEPT !.position = Position(@.start + length, @.end + length) ]
make_token(self, token_type, value) ==
    [ token_type |-> token_type, value |-> value,
      position |-> Position(self.position.start, self.position.start + Len(value)) ]
advance_token(self, token_type, value) ==
    advance([ self EXCEPT !.tokens = Append(@, make_token(self, token_type, value)) ],
            Len(value))

\* a matcher that gives the token the string between the quotes
match_string_literal_unquoted(self) ==
    LET opened == advance(self, 1)
        string == group(opened, STRING_LITERAL_QUOTEABLE(current_char(self), self.text,
                                                         opened.position.start + 1))
        matched == advance(opened, Len(string))
        closed == advance(matched, 1)
    IN IF current_char(matched) \in { SINGLE_QUOTE, DOUBLE_QUOTE }
       THEN [ matched |-> TRUE, error |-> None,
              self |-> [ closed EXCEPT !.tokens = Append(@,
                           [ make_token(closed, "STRING", string)
                             EXCEPT !.position = Position(self.position.start,
                                                          closed.position.end) ]) ] ]
       ELSE [ matched |-> FALSE, self |-> matched,
              error |-> Error("UnterminatedStringLiteralError", << >>) ]

\* match_string_literal, called on a quote: the quotes and the string between
\* them make one STRING token
match_string_literal(self) ==
    LET opened == advance(self, 1)
        string == group(opened, STRING_LITERAL_QUOTEABLE(current_char(self), self.text,
                                                         opened.position.start + 1))
        matched == advance(opened, Len(string))
        value == << current_char(matched) >> \o string \o << current_char(matched) >>
        closed == advance(matched, 1)
    IN IF current_char(matched) \in { SINGLE_QUOTE, DOUBLE_QUOTE }
       THEN [ matched |-> TRUE, error |-> None,
              self |-> [ closed EXCEPT !.tokens = Append(@,
                           [ make_token(closed, "STRING", value)
                             EXCEPT !.position = Position(self.position.start,
                                                          closed.position.end) ]) ] ]
       ELSE [ matched |-> FALSE, self |-> matched,
              error |-> Error("UnterminatedStringLiteralError", << >>) ]

match_member_name_shorthand(self) ==
    LET string == group(self, MEMBER_NAME_SHORTHAND(self.text, self.position.start + 1))
    IN IF string \in JSON_KEYWORD_LEXEMES_SET
       THEN advance_token(self, TOKEN_LOOKUP_DICT(string), string)
       ELSE advance_token(self, "IDENTIFIER", string)

match_slice_selector(self) ==
    advance_token(self, "SLICE", SLICE_SELECTOR(unparsed_text(self)).match)

match_number(self) ==
    LET num_str == group(self, NUMBER(self.text, self.position.start + 1))
    IN advance_token(self, IF INT(num_str, 1) = Len(num_str) + 1 THEN "INT" ELSE "FLOAT",
                     num_str)

\* a lexer that keeps the whitespace as a token
keep_whitespace(self) ==
    advance_token(self, "SPACE", group(self, SPACES(self.text, self.position.start + 1)))

\* the whitespace branch of tokenize: the blanks are consumed, no token is kept
eat_whitespace(self) ==
    advance(self, Len(make_token(self, "SPACE",
                                 group(self, SPACES(self.text, self.position.start + 1))).value))

\* JPathLexer.tokenize: the loop from a lexer state on, then the EOF token
RECURSIVE tokenize(_)
tokenize(self) ==
    LET here == self.position.start + 1
    IN IF current_char(self) = ""
       THEN [ tokens |-> Append(self.tokens, make_token(self, "EOF", << >>)),
              error |-> None ]
       ELSE IF current_char(self) \in BLANK_CHAR
       THEN tokenize(eat_whitespace(self))
       ELSE IF peek_next_chars(self, 2) \in TWO_CHAR_LEXEMES_SET
       THEN tokenize(advance_token(self, TOKEN_LOOKUP_DICT(peek_next_chars(self, 2)),
                                   peek_next_chars(self, 2)))
       ELSE IF current_char(self) \in SINGLE_CHAR_LEXEMES_SET
       THEN tokenize(advance_token(self, TOKEN_LOOKUP_DICT(<< current_char(self) >>),
                                   << current_char(self) >>))
       ELSE IF MEMBER_NAME_SHORTHAND(self.text, here) > here
       THEN tokenize(match_member_name_shorthand(self))
       ELSE IF current_char(self) \in { SINGLE_QUOTE, DOUBLE_QUOTE }
       THEN IF match_string_literal(self).error # None
            THEN [ tokens |-> match_string_literal(self).self.tokens,
                   error |-> match_string_literal(self).error ]
            ELSE tokenize(match_string_literal(self).self)
       ELSE IF current_char(self) \in SLICE_CHARS /\ SLICE_SELECTOR(unparsed_text(self)) # None
       THEN tokenize(match_slice_selector(self))
       ELSE IF /\ current_char(self) \in DIGITS \cup { "-" }
               /\ NUMBER(self.text, here) > here
       THEN tokenize(match_number(self))
       ELSE [ tokens |-> advance_token(self, "UNKNOWN", << current_char(self) >>).tokens,
              error |-> Error("IllegalCharError", << current_char(self) >>) ]

(* WellFormedValidQuery.from_str: the lexer, then the parser on its tokens *)
MaxChars == 4
LexAlphabet == { "$", "[", "]", "-", "0", "1", ":", ".", SINGLE_QUOTE, BACKSLASH, " ", "a" }
\* the texts handed to the lexer: every short text, and every short text
\* between the brackets of a child segment
QueryTexts ==
    SeqsUpTo(LexAlphabet, MaxChars)
    \cup { << "$", "[" >> \o inner \o << "]" >> : inner \in SeqsUpTo(LexAlphabet, MaxChars - 1) }

\* from_str(jpath_query_string) up to the parser: JPathLexer("", text).tokenize(),
\* an error or an empty text raising ValueError
from_str ==
    /\ pc = "lex"
    /\ \E jpath_query_string \in QueryTexts :
          /\ lexer_text' = jpath_query_string
          /\ lexOut' = tokenize(JPathLexer(jpath_query_string))
    /\ IF lexer_text' = << >> \/ lexOut'.error # None
       THEN /\ parseOut' = Raised("ValueError")
            /\ pc' = "parsed"
            /\ UNCHANGED tokens
       ELSE /\ tokens' = lexOut'.tokens
            /\ pc' = "parse"
            /\ UNCHANGED parseOut
    /\ UNCHANGED << heap, root, query, segIdx, nodelist, warnings, result, rootNode,
                    cmpVars, callVars, regVars >>

NextLex == from_str \/ parse

InitLex ==
    /\ lexer_text = << >>
    /\ tokens = << >> /\ parseOut = Pending /\ lexOut = Pending
    /\ pc = "lex" /\ heap = << >> /\ root = Null /\ query = << >> /\ segIdx = 0
    /\ nodelist = << >> /\ warnings = << >> /\ result = Pending /\ rootNode = RootNode
    /\ cmpLeft = Null /\ cmpRight = Null /\ cmpOut = << >>
    /\ IdleCall /\ IdleRegistry

SpecLex == InitLex /\ [][NextLex]_vars


\* the lexer is scheduled until it has returned: from_str calls tokenize and
\* then the parser, and nothing else runs between them
SpecLexFair == SpecLex /\ WF_vars(NextLex)

(* Claims about the lexer, checked under SpecLex and SpecLexFair *)
Lexed == lexOut # Pending
LexedWithoutError == Lexed /\ lexOut.error = None
\* the offsets of the text that no token spans
Skipped ==
    { i \in 0..(Len(lexer_text) - 1) :
        \A k \in 1..Len(lexOut.tokens) :
            i < lexOut.tokens[k].position.start \/ i >= lexOut.tokens[k].position.end }

\* C23: the lexer returns on every text, and a token list returned without an
\* error ends with an EOF token, holds no other EOF token and no SPACE token
C23_LexerTerminates ==
    /\ <>Lexed
    /\ [](LexedWithoutError
          => /\ Len(lexOut.tokens) >= 1
             /\ \A k \in 1..Len(lexOut.tokens) :
                  /\ lexOut.tokens[k].token_type = "EOF" <=> k = Len(lexOut.tokens)
                  /\ lexOut.tokens[k].token_type # "SPACE")
C23_Witness ==
    /\ LexedWithoutError
    /\ Len(lexOut.tokens) >= 3
    /\ \E i \in Skipped : lexer_text[i + 1] \in BLANK_CHAR

RECURSIVE Concatenated(_, _)
\* the values of the tokens from the k-th on, one after the other
Concatenated(token_list, k) ==
    IF k > Len(token_list) THEN << >>
    ELSE token_list[k].value \o Concatenated(token_list, k + 1)
RECURSIVE WithoutSkipped(_)
\* the text from offset i on without the characters no token spans
WithoutSkipped(i) ==
    IF i >= Len(lexer_text) THEN << >>
    ELSE (IF i \in Skipped THEN << >> ELSE << lexer_text[i + 1] >>) \o WithoutSkipped(i + 1)

\* C24: when the lexer reports no error, each token's value is the text its
\* span covers, only whitespace lies outside the spans, and the values in
\* order give back the text without that whitespace
C24_TokensCoverText ==
    LexedWithoutError
    => /\ \A k \in 1..Len(lexOut.tokens) :
            lexOut.tokens[k].value =
                SubSeq(lexer_text, lexOut.tokens[k].position.start + 1,
                       lexOut.tokens[k].position.end)
       /\ \A i \in Skipped : lexer_text[i + 1] \in BLANK_CHAR
       /\ Concatenated(lexOut.tokens, 1) = WithoutSkipped(0)
C24_Witness ==
    /\ LexedWithoutError
    /\ \E k \in 1..Len(lexOut.tokens) :
          /\ lexOut.tokens[k].token_type \in { "STRING", "SLICE" }
          /\ \E i \in 1..Len(lexOut.tokens[k].value) : lexOut.tokens[k].value[i] = " "
    /\ Skipped # {}

\* C25: a query whose only selector is a plain -0 is lexed with -0 as a FLOAT
\* token, and the parser rejects it with a ValidationError
MinusZeroIndex ==
    /\ pc = "parsed"
    /\ LexedWithoutError
    /\ Len(lexOut.tokens) = 5
    /\ lexOut.tokens[1].token_type = "DOLLAR"
    /\ lexOut.tokens[2].token_type = "LBRACKET"
    /\ lexOut.tokens[3].value = << "-", "0" >>
    /\ lexOut.tokens[4].token_type = "RBRACKET"
C25_MinusZeroRejected ==
    MinusZeroIndex
    => /\ lexOut.tokens[3].token_type = "FLOAT"
       /\ parseOut.status = "returned"
       /\ parseOut.res.error # None
       /\ parseOut.res.error.error_name = "ValidationError"


-----------------------------------------------------------------------------
(* Calls of match and search, checked under SpecRegex                     *)

\* the patterns of the enumerated calls
MaxPattern == 3
RegexAlphabet == { "a", "z", "-", "(", ")", "[", "]", "*" }
PatternTexts == SeqsUpTo(RegexAlphabet, MaxPattern)

\* the token lists the lexer produces for "$[?f(@, ARG)]", f one of match and
\* search, ARG a string literal, a query or another argument
RegexTokenLists ==
    LET T(token_type, lexeme) == << Token(token_type, lexeme) >>
        quoted(pattern) == T("STRING", << SINGLE_QUOTE >> \o pattern \o << SINGLE_QUOTE >>)
        at == T("AT", << "@" >>)
        lb == T("LBRACKET", << "[" >>)
        rb == T("RBRACKET", << "]" >>)
        pattern_arguments ==
            { quoted(pattern) : pattern \in PatternTexts }
            \cup { at \o lb \o quoted(pattern) \o rb : pattern \in PatternTexts }
            \cup { at, T("DOLLAR", << "$" >>), at \o lb \o T("STAR", << "*" >>) \o rb,
                   T("INT", << "1" >>), T("TRUE", << "t", "r", "u", "e" >>),
                   T("NULL", << "n", "u", "l", "l" >>) }
        names == { << "m", "a", "t", "c", "h" >>, << "s", "e", "a", "r", "c", "h" >> }
    IN { << Token("DOLLAR", << "$" >>), Token("LBRACKET", << "[" >>), Token("QMARK", << "?" >>),
            Token("IDENTIFIER", name), Token("LPAREN", << "(" >>), Token("AT", << "@" >>),
            Token("COMMA", << "," >>) >>
         \o pattern_argument
         \o << Token("RPAREN", << ")" >>), Token("RBRACKET", << "]" >>), Token("EOF", << >>) >> :
         name \in names, pattern_argument \in pattern_arguments }

InitRegex ==
    /\ tokens \in RegexTokenLists
    /\ parseOut = Pending /\ lexer_text = << >> /\ lexOut = Pending
    /\ pc = "parse" /\ heap = << >> /\ root = Null /\ query = << >> /\ segIdx = 0
    /\ nodelist = << >> /\ warnings = << >> /\ result = Pending /\ rootNode = RootNode
    /\ cmpLeft = Null /\ cmpRight = Null /\ cmpOut = << >>
    /\ IdleCall /\ IdleRegistry

SpecRegex == InitRegex /\ [][NextParse]_vars

\* a parsed call of match or search, and the tokens of its pattern argument
RegexCall ==
    /\ pc = "parsed"
    /\ Len(tokens) > 10
    /\ tokens[4].token_type = "IDENTIFIER" /\ tokens[5].token_type = "LPAREN"
PatternArgument == SubSeq(tokens, 8, Len(tokens) - 3)
LiteralPattern == Len(PatternArgument) = 1 /\ PatternArgument[1].token_type = "STRING"
\* the messages of re.error
ReErrors == { "missing ), unterminated subpattern", "unbalanced parenthesis",
              "nothing to repeat", "multiple repeat", "unterminated character set",
              "bad character range" }
RejectedOnPatternGrounds ==
    /\ parseOut.status = "returned"
    /\ parseOut.res.error # None
    /\ parseOut.res.error.error_name = "ValidationError"
    /\ parseOut.res.error.details \in ReErrors

\* C26: a match or search call is rejected at parse time on pattern grounds
\* exactly when its pattern argument is a string literal that does not
\* compile; a pattern argument that is not a literal is never rejected so
C26_PatternChecked ==
    RegexCall
    => (RejectedOnPatternGrounds
        <=> /\ LiteralPattern
            /\ re_error(unescape_string_content(
                            SubSeq(PatternArgument[1].value, 2,
                                   Len(PatternArgument[1].value) - 1))))


-----------------------------------------------------------------------------
(* One compiled query evaluated by two threads: the RootNode of its AST is *)
(* shared, each eval has its own Context, evaluator and nodelists          *)

Evaluations == { 1, 2 }
\* what an eval call holds: its position, the root value of its Context, the
\* nodelist visit_JsonPathQueryNode works on, and what it returned
Evaluation(pc_, root_value, index, nodes, returned) ==
    [ pc |-> pc_, root_value |-> root_value, segIdx |-> index, nodelist |-> nodes,
      result |-> returned ]

\* visit_RootNode, node.json_value = root_json_value: the setter stores the value
set_json_value(t) ==
    /\ pc = "shared"
    /\ threads[t].pc = "start"
    /\ rootNode' = [ rootNode EXCEPT !.json_value = threads[t].root_value ]
    /\ threads' = [ threads EXCEPT ![t].pc = "setter" ]
    /\ UNCHANGED << heap, root, query, pc, segIdx, nodelist, warnings, result,
                    cmpVars, parseVars, callVars, functions, registry >>

\* the setter then builds the root nodelist from the value the node holds
set_root_nodelist(t) ==
    /\ pc = "shared"
    /\ threads[t].pc = "setter"
    /\ rootNode' = [ rootNode EXCEPT !.root_nodelist = root_nodelist(rootNode.json_value) ]
    /\ threads' = [ threads EXCEPT ![t].pc = "set" ]
    /\ UNCHANGED << heap, root, query, pc, segIdx, nodelist, warnings, result,
                    cmpVars, parseVars, callVars, functions, registry >>

\* visit_RootNode returns node.root_nodelist, the input of the first segment
get_root_nodelist(t) ==
    /\ pc = "shared"
    /\ threads[t].pc = "set"
    /\ threads' = [ threads EXCEPT ![t].pc = "segments", ![t].segIdx = 1,
                                   ![t].nodelist = rootNode.root_nodelist ]
    /\ UNCHANGED << heap, root, query, pc, segIdx, nodelist, warnings, result, rootNode,
                    cmpVars, parseVars, callVars, functions, registry >>

\* one iteration of the segment loop, on the nodelist of this evaluation
shared_SegmentStep(t) ==
    /\ pc = "shared"
    /\ threads[t].pc = "segments"
    /\ threads[t].segIdx <= Len(query)
    /\ LET out == visit_SegmentNode(query[threads[t].segIdx], threads[t].nodelist)
       IN threads' = [ threads EXCEPT
                         ![t] = IF out.exc # ""
                                THEN [ @ EXCEPT !.pc = "done", !.result = Raised(out.exc) ]
                                ELSE [ @ EXCEPT !.nodelist = out.nodes,
                                                !.segIdx = @ + 1 ] ]
    /\ UNCHANGED << heap, root, query, pc, segIdx, nodelist, warnings, result, rootNode,
                    cmpVars, parseVars, callVars, functions, registry >>

shared_Return(t) ==
    /\ pc = "shared"
    /\ threads[t].pc = "segments"
    /\ threads[t].segIdx > Len(query)
    /\ threads' = [ threads EXCEPT ![t].pc = "done",
                                   ![t].result = Returned(threads[t].nodelist) ]
    /\ UNCHANGED << heap, root, query, pc, segIdx, nodelist, warnings, result, rootNode,
                    cmpVars, parseVars, callVars, functions, registry >>

NextShared ==
    \E t \in Evaluations :
          \/ set_json_value(t)
          \/ set_root_nodelist(t)
          \/ get_root_nodelist(t)
          \/ shared_SegmentStep(t)
          \/ shared_Return(t)

\* the two documents: cell t is the root of evaluation t, and no value of
\* one document is a value of the other
SharedHeaps ==
    LET first == { Array(<< IntVal(1) >>), Object(<< << "a" >> >>, << IntVal(1) >>),
                   Array(<< IntVal(1), IntVal(3) >>) }
        second == { Array(<< IntVal(2) >>), Object(<< << "a" >> >>, << IntVal(2) >>),
                    Object(<< << "a" >>, << "b" >> >>, << IntVal(2), IntVal(4) >>) }
    IN { << one, two >> : one \in first, two \in second }
\* $, $[*], $['a'], $[0], $[*][*]
SharedQueries ==
    { << >>,
      << ChildSegment(<< WildcardSelector >>) >>,
      << ChildSegment(<< NameSelector(<< "a" >>) >>) >>,
      << ChildSegment(<< IndexSelector(0) >>) >>,
      << ChildSegment(<< WildcardSelector >>), ChildSegment(<< WildcardSelector >>) >> }

InitShared ==
    /\ heap \in SharedHeaps
    /\ query \in SharedQueries
    /\ threads = [ t \in Evaluations |-> Evaluation("start", Ref(t), 0, << >>, Pending) ]
    /\ rootNode = RootNode
    /\ pc = "shared" /\ root = Null /\ segIdx = 0 /\ nodelist = << >>
    /\ warnings = << >> /\ result = Pending
    /\ cmpLeft = Null /\ cmpRight = Null /\ cmpOut = << >>
    /\ tokens = << >> /\ parseOut = Pending /\ lexer_text = << >> /\ lexOut = Pending
    /\ IdleCall
    /\ functions = KnownFunctions /\ registry = [ instance |-> TRUE, lock |-> 0 ]

SpecShared == InitShared /\ [][NextShared]_vars

\* the values of the document evaluation t was handed: its root and the
\* values of its container
OwnValues(t) ==
    { threads[t].root_value }
    \cup { CellValues(heap[threads[t].root_value.a])[k] :
             k \in 1..Len(CellValues(heap[threads[t].root_value.a])) }

\* C27: when one compiled query is evaluated by two threads on two root
\* values, the nodelist each eval returns holds only nodes of its own root
C27_OwnRootOnly ==
    \A t \in Evaluations :
        threads[t].result.status = "returned"
        => \A k \in 1..Len(threads[t].result.nodes) :
               threads[t].result.nodes[k].jvalue \in OwnValues(t)


-----------------------------------------------------------------------------
(* The logical expression of a filter, evaluated for one current node      *)
(* (evaluating/evaluator.py).  A visit returns [exc, value].               *)

\* self.visit(node, context): the visit method of the node's class
RECURSIVE visit(_, _)

\* visit_RelativeQueryNode: the segments applied to the current node; the
\* segments of the filters considered here are child segments
visit_RelativeQueryNode(node, current_node) ==
    LET RECURSIVE loop(_, _)
        loop(j, input_nodelist) ==
            IF j > Len(node.segments) THEN FnValue(VNodeList(input_nodelist))
            ELSE Call(visit_Selector(node.segments[j].selectors[1], input_nodelist),
                      LAMBDA out : IF out.exc # "" THEN FnRaise(out.exc)
                                   ELSE loop(j + 1, out.nodes))
    IN loop(1, << current_node >>)

\* get_comparable_value: [exc, value]
get_comparable_value(eval_result) ==
    IF eval_result.t = "nodelist"
    THEN IF Len(eval_result.node_list) = 1 THEN FnValue(eval_result.node_list[1].jvalue)
         ELSE IF Len(eval_result.node_list) = 0 THEN FnValue(Nothing)
         ELSE FnRaise("RTError")
    ELSE IF eval_result.t = "logical" THEN FnValue(BoolVal(eval_result.b))
    ELSE FnValue(eval_result)

\* visit_BinaryOpNode: the BooleanValue of a comparison
visit_BinaryOpNode(node, current_node) ==
    Call(<< visit(node.left_node, current_node), visit(node.right_node, current_node) >>,
         LAMBDA operands :
             IF operands[1].exc # "" THEN operands[1]
             ELSE IF operands[2].exc # "" THEN operands[2]
             ELSE Call(<< get_comparable_value(operands[1].value),
                          get_comparable_value(operands[2].value) >>,
                       LAMBDA actual :
                           IF actual[1].exc # "" THEN actual[1]
                           ELSE IF actual[2].exc # "" THEN actual[2]
                           ELSE Call(ComparisonOperatorType_eval(node.op, actual[1].value,
                                                                 actual[2].value),
                                     LAMBDA compared :
                                         IF compared.exc # "" THEN FnRaise(compared.exc)
                                         ELSE FnValue(BooleanValue(compared.val)))))

\* visit_FunctionCallNode for a call of match: the arguments are visited in
\* order and the function's eval is called with their values
visit_match(node, current_node) ==
    Call(<< visit(node.args[1], current_node), visit(node.args[2], current_node) >>,
         LAMBDA call_args :
             IF call_args[1].exc # "" \/ call_args[2].exc # "" THEN FnRaise("ValueError")
             ELSE MatchFunction_eval(call_args[1].value, call_args[2].value))

\* BooleanValue.negate and LogicalType.negate
negate(self) == IF self.t = "logical" THEN LogicalType(~self.b) ELSE BooleanValue(~self.value.b)

\* visit_UnaryOpNode: a nodelist is turned into a BooleanValue; any other
\* operand is visited a second time and the second value is negated
visit_UnaryOpNode(node, current_node) ==
    Call(visit(node.node, current_node),
         LAMBDA result_node :
             IF result_node.exc = "" /\ result_node.value.t = "nodelist"
             THEN FnValue(negate(BooleanValue(Len(result_node.value.node_list) > 0)))
             ELSE Call(visit(node.node, current_node),
                       LAMBDA bool_flag : IF bool_flag.exc # "" THEN bool_flag
                                          ELSE FnValue(negate(bool_flag.value))))

\* visit_RepetitionNode: [exc, value, visited], visited the number of
\* operands the loop evaluated
visit_RepetitionNode(node, current_node) ==
    LET \* the operand's truth combined with the truth so far (None at first)
        combined(current_bool_result, bool_for_node) ==
            IF current_bool_result = None \/ ~current_bool_result.b THEN bool_for_node
            ELSE IF node.node_type = "LOGICAL_AND_EXPR"
            THEN current_bool_result.b /\ bool_for_node
            ELSE current_bool_result.b \/ bool_for_node
        \* the truth of an operand's value, None for a value of another type
        truth(eval_result) ==
            IF eval_result.t = "nodelist" THEN BoolVal(Len(eval_result.node_list) > 0)
            ELSE IF eval_result.t = "evaluator_value" /\ eval_result.value.t = "bool"
            THEN eval_result.value
            ELSE None
        RECURSIVE loop(_, _)
        \* the operands from index k on; current_bool_result is None or a bool
        loop(k, current_bool_result) ==
            IF k > Len(node.nodes)
            THEN IF current_bool_result = None
                 THEN [ exc |-> "ValueError", value |-> Nothing, visited |-> k - 1 ]
                 ELSE [ exc |-> "", value |-> BooleanValue(current_bool_result.b),
                        visited |-> k - 1 ]
            ELSE Call(visit(node.nodes[k], current_node),
                      LAMBDA eval_result :
                          IF eval_result.exc # ""
                          THEN [ exc |-> eval_result.exc, value |-> Nothing, visited |-> k ]
                          ELSE IF truth(eval_result.value) = None
                          THEN [ exc |-> "TypeError", value |-> Nothing, visited |-> k ]
                          ELSE Call(combined(current_bool_result,
                                             truth(eval_result.value).b),
                                    LAMBDA next :
                                        \* AND breaks on False, OR on True
                                        IF next = (node.node_type = "LOGICAL_OR_EXPR")
                                        THEN [ exc |-> "", value |-> BooleanValue(next),
                                               visited |-> k ]
                                        ELSE loop(k + 1, BoolVal(next))))
    IN loop(1, None)

visit(node, current_node) ==
    CASE node.node_type = "RELATIVE_QUERY" -> visit_RelativeQueryNode(node, current_node)
      [] node.node_type = "INT" -> FnValue(NumberValue(node.value))
      [] node.node_type = "STRING" -> FnValue(StringValue(node.raw_string))
      [] node.node_type = "COMPARISON_EXPR" -> visit_BinaryOpNode(node, current_node)
      [] node.node_type = "FUNCTION_CALL" -> visit_match(node, current_node)
      [] node.node_type = "LOGICAL_NOT" -> visit_UnaryOpNode(node, current_node)
      [] node.node_type \in { "LOGICAL_AND_EXPR", "LOGICAL_OR_EXPR" } ->
             Call(visit_RepetitionNode(node, current_node),
                  LAMBDA out : [ exc |-> out.exc, value |-> out.value ])

\* the logical expression of the filter is evaluated for the current node
Evaluated(out) ==
    IF out.exc # "" THEN Raised(out.exc)
    ELSE [ status |-> "returned", value |-> out.value, visited |-> out.visited ]
visit_logical_expr ==
    /\ pc = "filter"
    /\ result' = Evaluated(visit_RepetitionNode(query, nodelist[1]))
    /\ pc' = "filtered"
    /\ UNCHANGED << heap, root, query, segIdx, nodelist, warnings, rootNode,
                    cmpVars, parseVars, callVars, regVars >>

NextLogical == visit_logical_expr

\* the current nodes: objects with a member a, a member b, both or neither
LogicalHeap ==
    << Object(<< << "a" >> >>, << StrVal(<< "a" >>, StrObj) >>),
       Object(<< << "b" >> >>, << IntVal(1) >>),
       Object(<< << "a" >>, << "b" >> >>, << StrVal(<< "a" >>, StrObj), IntVal(1) >>),
       Object(<< >>, << >>) >>

\* the operands: @['a'], @['b'], @['b'] == 1, 1 == 2, match(@['a'], 'a'),
\* their negations, and the parenthesised (@['a'] || @['b']), (@['a'] && @['b'])
LogicalOperands ==
    LET rel(name) == [ node_type |-> "RELATIVE_QUERY",
                       segments |-> << ChildSegment(<< NameSelector(<< name >>) >>) >> ]
        number(n) == [ node_type |-> "INT", value |-> n ]
        compare(left_node, right_node) ==
            [ node_type |-> "COMPARISON_EXPR", left_node |-> left_node, op |-> "EQ",
              right_node |-> right_node ]
        call == [ node_type |-> "FUNCTION_CALL", func_name |-> "match",
                  args |-> << rel("a"),
                              [ node_type |-> "STRING",
                                raw_string |-> << SINGLE_QUOTE, "a", SINGLE_QUOTE >> ] >> ]
        not(node) == [ node_type |-> "LOGICAL_NOT", node |-> node ]
        plain == { rel("a"), rel("b"), compare(rel("b"), number(1)),
                   compare(number(1), number(2)), call }
    IN plain \cup { not(node) : node \in plain }
       \cup { [ node_type |-> "LOGICAL_OR_EXPR", nodes |-> << rel("a"), rel("b") >> ],
              [ node_type |-> "LOGICAL_AND_EXPR", nodes |-> << rel("a"), rel("b") >> ] }
MaxOperands == 2
LogicalExprs ==
    { [ node_type |-> node_type, nodes |-> nodes ] :
        node_type \in { "LOGICAL_AND_EXPR", "LOGICAL_OR_EXPR" },
        nodes \in UNION { [ 1..n -> LogicalOperands ] : n \in 2..MaxOperands } }

InitLogical ==
    /\ heap = LogicalHeap
    /\ query \in LogicalExprs
    /\ \E a \in 1..Len(LogicalHeap) : nodelist = << VNode(<< "$", "[", "0", "]" >>, Ref(a)) >>
    /\ pc = "filter" /\ root = Ref(1) /\ segIdx = 0
    /\ warnings = << >> /\ result = Pending /\ rootNode = RootNode
    /\ InitOther

SpecLogical == InitLogical /\ [][NextLogical]_vars

\* the truthiness of an operand: a nodelist that is not empty, a true
\* BooleanValue or LogicalType; of a negation, a conjunction, a disjunction
RECURSIVE Truthiness(_)
Truthiness(node) ==
    CASE node.node_type = "LOGICAL_NOT" -> ~Truthiness(node.node)
      [] node.node_type = "LOGICAL_AND_EXPR" ->
             \A k \in 1..Len(node.nodes) : Truthiness(node.nodes[k])
      [] node.node_type = "LOGICAL_OR_EXPR" ->
             \E k \in 1..Len(node.nodes) : Truthiness(node.nodes[k])
      [] node.node_type \in { "RELATIVE_QUERY", "COMPARISON_EXPR", "FUNCTION_CALL" } ->
             Call(visit(node, nodelist[1]).value,
                  LAMBDA value : CASE value.t = "nodelist" -> Len(value.node_list) > 0
                                   [] value.t = "logical" -> value.b
                                   [] value.t = "evaluator_value" -> value.value.b)
\* the operands a short-circuit evaluation visits: up to the first whose
\* truthiness decides the expression (false for AND, true for OR)
ShortCircuit(node) ==
    Call({ k \in 1..Len(node.nodes) :
             Truthiness(node.nodes[k]) = (node.node_type = "LOGICAL_OR_EXPR") },
         LAMBDA deciding :
             IF deciding = { } THEN Len(node.nodes)
             ELSE CHOOSE k \in deciding : \A j \in deciding : k <= j)

\* C29: a logical AND / OR expression visits its operands from the left up to
\* the first that decides it, and returns the BooleanValue of the conjunction
\* / disjunction of the operands' truthiness, for every kind of operand
C29_ShortCircuit ==
    pc = "filtered"
    => /\ result.status = "returned"
       /\ result.value = BooleanValue(Truthiness(query))
       /\ result.visited = ShortCircuit(query)

=============================================================================
